---------------------------- MODULE Spec2Model ----------------------------
(***************************************************************************)
(* Model of pyaudacity's transport function do(command)                    *)
(* (src/src/pyaudacity/__init__.py, lines 102-157) together with its       *)
(* environment: the file system holding the two named pipes and the peer   *)
(* (Audacity) that feeds the inbound pipe.                                 *)
(*                                                                         *)
(* Text is modelled character by character: a Python str is a sequence of  *)
(* one-character strings, so concatenation is \o, len() is Len and the     *)
(* substring test is a real search.  The NUL character is the token "NUL". *)
(* The channels are modelled at the level of Python's text layer: what     *)
(* write() is handed and what readline() yields.                           *)
(***************************************************************************)
EXTENDS Integers, Sequences, FiniteSets, TLC

\* ------------------------------------------------------------------ bounds
MaxCalls == 2      \* sequential calls of do() in one behaviour
MaxLines == 4      \* lines the peer sends in one behaviour
MaxUid   == 12     \* largest user id tried (two decimal digits)

\* ------------------------------------------------------- text primitives
NUL == "NUL"
NL  == <<"\n">>

RECURSIVE Flatten(_)
\* "".join(lines)
Flatten(lines) ==
    IF lines = <<>> THEN <<>> ELSE Head(lines) \o Flatten(Tail(lines))

\* needle in haystack  (Python's substring operator on str)
Contains(haystack, needle) ==
    \E i \in 1..(Len(haystack) - Len(needle) + 1) :
        SubSeq(haystack, i, i + Len(needle) - 1) = needle

Digit(d) == <<"0","1","2","3","4","5","6","7","8","9">>[d + 1]

RECURSIVE str(_)
\* str(n) for a non-negative int: its decimal digits, most significant first
str(n) == IF n < 10 THEN <<Digit(n)>> ELSE str(n \div 10) \o <<Digit(n % 10)>>

\* --------------------------------------------------- constants of do()
WinWritePipe == <<"\\","\\",".","\\","p","i","p","e","\\","T","o","S","r","v","P","i","p","e">>
WinReadPipe  == <<"\\","\\",".","\\","p","i","p","e","\\","F","r","o","m","S","r","v","P","i","p","e">>
PosixWritePrefix == <<"/","t","m","p","/","a","u","d","a","c","i","t","y","_","s","c","r","i","p","t","_","p","i","p","e",".","t","o",".">>
PosixReadPrefix  == <<"/","t","m","p","/","a","u","d","a","c","i","t","y","_","s","c","r","i","p","t","_","p","i","p","e",".","f","r","o","m",".">>
DoesNotExistMsg == <<" ","d","o","e","s"," ","n","o","t"," ","e","x","i","s","t","."," "," ","E","n","s","u","r","e"," ","A","u","d","a","c","i","t","y"," ","i","s"," ","r","u","n","n","i","n","g"," ","a","n","d"," ","m","o","d","-","s","c","r","i","p","t","-","p","i","p","e"," ","i","s"," ","s","e","t"," ","t","o"," ","E","n","a","b","l","e","d"," ","i","n"," ","t","h","e"," ","P","r","e","f","e","r","e","n","c","e","s"," ","w","i","n","d","o","w",".">>
FailureMarker == <<"B","a","t","c","h","C","o","m","m","a","n","d"," ","f","i","n","i","s","h","e","d",":"," ","F","a","i","l","e","d","!">>

\* ------------------------------------------------------------ environment
Platforms == {"win32", "linux"}
Uids      == {0, 7, MaxUid}

\* commands the callers (new(), close()) hand to do()
CmdNew   == <<"N","e","w">>
CmdClose == <<"C","l","o","s","e">>
Commands == {CmdNew, CmdClose}

\* lines readline() can yield from the peer
Line1      == <<"l","i","n","e","1","\n">>
FailedLine == FailureMarker \o NL
PeerLines  == {NL, Line1, FailedLine} \cup {c \o NL : c \in Commands}

VARIABLES
    platform,         \* sys.platform
    uid,              \* os.getuid()
    fs,               \* paths that exist (os.path.exists)
    fromPeer,         \* inbound pipe: lines sent by the peer, not yet read
    peerClosed,       \* the peer closed its end of the inbound pipe
    sent,             \* number of lines the peer has sent
    pc,               \* position of the caller in do()
    calls,            \* number of calls of do() started
    command,          \* argument of do()
    write_pipe_name,  \* locals of do()
    read_pipe_name,
    eol,
    write_pipe,       \* file object: "unset", "open", "closed"
    read_pipe,
    wbuf,             \* text buffered in write_pipe, not yet flushed
    response,
    line,
    result,           \* how the call ended
    delivered,        \* text that reached the outbound pipe in this call
    written,          \* arguments of write_pipe.write() in this call
    consumed,         \* lines readline() returned in this call
    nExistsW, nExistsR, nOpenW, nOpenR, nRead,  \* I/O done in this call
    wname,            \* the wrapper function being called, "none" for a direct do()
    wargs,            \* its arguments
    wresult,          \* how the wrapper call ended
    removed,          \* paths the wrapper has unlinked
    pc2,              \* a second caller of do(): its position,
    command2,         \* its locals and its file objects
    write_pipe2,
    read_pipe2,
    wbuf2,
    response2,
    line2,
    result2,
    delivered2,       \* text the second caller got into the outbound pipe
    consumed2,        \* lines readline() returned to the second caller
    answered          \* callers whose command the peer has answered

env    == <<platform, uid, fs>>
peer   == <<fromPeer, peerClosed, sent>>
locals == <<command, write_pipe_name, read_pipe_name, eol, response, line>>
files  == <<write_pipe, read_pipe, wbuf, delivered>>
hist   == <<written, consumed, nExistsW, nExistsR, nOpenW, nOpenR, nRead>>
wrap   == <<wname, wargs, wresult, removed>>
other  == <<pc2, command2, write_pipe2, read_pipe2, wbuf2, response2, line2,
            result2, delivered2, consumed2, answered>>
ext    == <<wrap, other>>
vars   == <<env, peer, pc, calls, locals, files, result, hist, ext>>

NoResult == [kind |-> "none", value |-> <<>>, line |-> 0]

\* ------------------------------------------------ expressions of do()
\* lines 104, 108 with the user id left out of the path
WritePipeName_NoUid(p, u) == IF p = "win32" THEN WinWritePipe ELSE PosixWritePrefix

\* lines 103-110: the endpoint names
WritePipeName(p, u) == IF p = "win32" THEN WinWritePipe ELSE PosixWritePrefix \o str(u)

ReadPipeName(p, u) == IF p = "win32" THEN WinReadPipe ELSE PosixReadPrefix \o str(u)

\* lines 106, 110: the terminator
Eol(p) == IF p = "win32" THEN <<"\r", "\n", NUL>> ELSE <<"\n">>

\* line 135: the argument of write()
WriteArg(c, e) == c \o e

\* line 143 without the test of the buffer
ShouldBreak_AnyBlank(l, r) == l = NL

\* line 143: the loop's exit test
ShouldBreak(l, r) == l = NL /\ Len(r) > 0

\* line 154 with == in place of the substring test
Failed_WholeResponse(r) == r = FailureMarker \o NL

\* line 154: the failure test
Failed(r) == Contains(r, FailureMarker)

\* lines 113-116 and 123-126: the exception for a missing endpoint
MissingEndpoint(name, ln) ==
    [kind |-> "raise", value |-> name \o DoesNotExistMsg, line |-> ln]

\* ------------------------------------------------------------------ Init
Init ==
    /\ platform \in Platforms
    /\ uid \in Uids
    /\ (platform = "win32" => uid = 0)
    /\ fs \in SUBSET {WritePipeName(platform, uid), ReadPipeName(platform, uid)}
    /\ fromPeer = <<>>
    /\ peerClosed = FALSE
    /\ sent = 0
    /\ pc = "idle"
    /\ calls = 0
    /\ command = <<>>
    /\ write_pipe_name = <<>>
    /\ read_pipe_name = <<>>
    /\ eol = <<>>
    /\ write_pipe = "unset"
    /\ read_pipe = "unset"
    /\ wbuf = <<>>
    /\ response = <<>>
    /\ line = <<>>
    /\ result = NoResult
    /\ delivered = <<>>
    /\ written = <<>>
    /\ consumed = <<>>
    /\ nExistsW = 0 /\ nExistsR = 0 /\ nOpenW = 0 /\ nOpenR = 0 /\ nRead = 0
    /\ wname = "none"
    /\ wargs = <<>>
    /\ wresult = NoResult
    /\ removed = {}
    /\ pc2 = "idle"
    /\ command2 = <<>>
    /\ write_pipe2 = "unset"
    /\ read_pipe2 = "unset"
    /\ wbuf2 = <<>>
    /\ response2 = <<>>
    /\ line2 = <<>>
    /\ result2 = NoResult
    /\ delivered2 = <<>>
    /\ consumed2 = <<>>
    /\ answered = {}

\* ------------------------------------------------------------- the peer
\* the peer writes one line into the inbound pipe
PeerSend(l) ==
    /\ ReadPipeName(platform, uid) \in fs
    /\ ~peerClosed
    /\ sent < MaxLines
    /\ fromPeer' = Append(fromPeer, l)
    /\ sent' = sent + 1
    /\ UNCHANGED <<ext, env, peerClosed, pc, calls, locals, files, result, hist>>

\* the peer closes its end of the inbound pipe: readline() sees end of file
PeerClose ==
    /\ ReadPipeName(platform, uid) \in fs
    /\ ~peerClosed
    /\ peerClosed' = TRUE
    /\ UNCHANGED <<ext, env, fromPeer, sent, pc, calls, locals, files, result, hist>>

\* ------------------------------------------------------------- do(command)
\* lines 102-110 with the connection kept between calls: a later call
\* goes straight to the write with the file objects of the call before
DoEnter_KeepsConnection(c) ==
    /\ pc \in {"idle", "done"}
    /\ calls < MaxCalls
    /\ calls' = calls + 1
    /\ command' = c
    /\ write_pipe_name' = WritePipeName(platform, uid)
    /\ read_pipe_name' = ReadPipeName(platform, uid)
    /\ eol' = Eol(platform)
    /\ response' = <<>>
    /\ line' = <<>>
    /\ wbuf' = <<>>
    /\ delivered' = <<>>
    /\ result' = NoResult
    /\ written' = <<>>
    /\ consumed' = <<>>
    /\ nExistsW' = 0 /\ nExistsR' = 0 /\ nOpenW' = 0 /\ nOpenR' = 0 /\ nRead' = 0
    /\ IF write_pipe = "unset"
         THEN pc' = "check_write" /\ write_pipe' = "unset" /\ read_pipe' = "unset"
         ELSE pc' = "write" /\ write_pipe' = "open" /\ read_pipe' = "open"
    /\ UNCHANGED <<ext, env, peer>>

\* lines 102-110: a new call; a fresh frame, names and terminator computed
DoEnter(c) ==
    /\ pc \in {"idle", "done"}
    /\ calls < MaxCalls
    /\ calls' = calls + 1
    /\ command' = c
    /\ write_pipe_name' = WritePipeName(platform, uid)
    /\ read_pipe_name' = ReadPipeName(platform, uid)
    /\ eol' = Eol(platform)
    /\ response' = <<>>
    /\ line' = <<>>
    /\ write_pipe' = "unset"
    /\ read_pipe' = "unset"
    /\ wbuf' = <<>>
    /\ delivered' = <<>>
    /\ result' = NoResult
    /\ written' = <<>>
    /\ consumed' = <<>>
    /\ nExistsW' = 0 /\ nExistsR' = 0 /\ nOpenW' = 0 /\ nOpenR' = 0 /\ nRead' = 0
    /\ pc' = "check_write"
    /\ UNCHANGED <<ext, env, peer>>

\* lines 112-120 trying once more before raising
CheckWrite_RetryOnce ==
    /\ pc = "check_write"
    /\ nExistsW' = nExistsW + 1
    /\ IF write_pipe_name \notin fs
         THEN IF nExistsW = 0
                THEN result' = result /\ pc' = "check_write"
                ELSE /\ result' = MissingEndpoint(write_pipe_name, 113)
                     /\ pc' = "done"
         ELSE /\ result' = result
              /\ pc' = "check_read"
    /\ UNCHANGED <<ext, env, peer, calls, locals, files, written, consumed,
                   nExistsR, nOpenW, nOpenR, nRead>>

\* lines 112-120 without the raise
CheckWrite_NoRaise ==
    /\ pc = "check_write"
    /\ nExistsW' = nExistsW + 1
    /\ pc' = "check_read"
    /\ UNCHANGED <<ext, env, peer, calls, locals, files, result, written, consumed,
                   nExistsR, nOpenW, nOpenR, nRead>>

\* lines 112-120
CheckWrite ==
    /\ pc = "check_write"
    /\ nExistsW' = nExistsW + 1
    /\ IF write_pipe_name \notin fs
         THEN /\ result' = MissingEndpoint(write_pipe_name, 113)
              /\ pc' = "done"
         ELSE /\ result' = result
              /\ pc' = "check_read"
    /\ UNCHANGED <<ext, env, peer, calls, locals, files, written, consumed,
                   nExistsR, nOpenW, nOpenR, nRead>>

\* lines 122-130 placed behind the open of line 132
CheckRead_AfterOpen ==
    /\ pc = "check_read"
    /\ nExistsR' = nExistsR + 1
    /\ nOpenW' = nOpenW + 1
    /\ write_pipe' = "open"
    /\ IF read_pipe_name \notin fs
         THEN /\ result' = MissingEndpoint(read_pipe_name, 123)
              /\ pc' = "done"
         ELSE /\ result' = result
              /\ pc' = "open_read"
    /\ UNCHANGED <<ext, env, peer, calls, locals, read_pipe, wbuf, delivered,
                   written, consumed, nExistsW, nOpenR, nRead>>

\* lines 122-130 testing write_pipe_name a second time
CheckRead_WrongName ==
    /\ pc = "check_read"
    /\ nExistsR' = nExistsR + 1
    /\ IF write_pipe_name \notin fs
         THEN /\ result' = MissingEndpoint(read_pipe_name, 123)
              /\ pc' = "done"
         ELSE /\ result' = result
              /\ pc' = "open_write"
    /\ UNCHANGED <<ext, env, peer, calls, locals, files, written, consumed,
                   nExistsW, nOpenW, nOpenR, nRead>>

\* lines 122-130
CheckRead ==
    /\ pc = "check_read"
    /\ nExistsR' = nExistsR + 1
    /\ IF read_pipe_name \notin fs
         THEN /\ result' = MissingEndpoint(read_pipe_name, 123)
              /\ pc' = "done"
         ELSE /\ result' = result
              /\ pc' = "open_write"
    /\ UNCHANGED <<ext, env, peer, calls, locals, files, written, consumed,
                   nExistsW, nOpenW, nOpenR, nRead>>

\* line 132
OpenWrite ==
    /\ pc = "open_write"
    /\ write_pipe' = "open"
    /\ nOpenW' = nOpenW + 1
    /\ pc' = "open_read"
    /\ UNCHANGED <<ext, env, peer, calls, locals, read_pipe, wbuf, delivered, result,
                   written, consumed, nExistsW, nExistsR, nOpenR, nRead>>

\* line 133
OpenRead ==
    /\ pc = "open_read"
    /\ read_pipe' = "open"
    /\ nOpenR' = nOpenR + 1
    /\ pc' = "write"
    /\ UNCHANGED <<ext, env, peer, calls, locals, write_pipe, wbuf, delivered, result,
                   written, consumed, nExistsW, nExistsR, nOpenW, nRead>>

\* line 135: the text goes into the file object's buffer
Write ==
    /\ pc = "write"
    /\ write_pipe = "open"
    /\ wbuf' = wbuf \o WriteArg(command, eol)
    /\ written' = Append(written, WriteArg(command, eol))
    /\ pc' = "flush"
    /\ UNCHANGED <<ext, env, peer, calls, locals, write_pipe, read_pipe, delivered,
                   result, consumed, nExistsW, nExistsR, nOpenW, nOpenR, nRead>>

\* lines 136-139 without the flush()
Flush_Omitted ==
    /\ pc = "flush"
    /\ write_pipe = "open"
    /\ response' = <<>>
    /\ line' = <<>>
    /\ pc' = "read"
    /\ UNCHANGED <<ext, env, peer, calls, command, write_pipe_name, read_pipe_name,
                   eol, files, result, hist>>

\* lines 136-139: the buffer reaches the pipe; response = "", line = ""
Flush ==
    /\ pc = "flush"
    /\ write_pipe = "open"
    /\ delivered' = delivered \o wbuf
    /\ wbuf' = <<>>
    /\ response' = <<>>
    /\ line' = <<>>
    /\ pc' = "read"
    /\ UNCHANGED <<ext, env, peer, calls, command, write_pipe_name, read_pipe_name,
                   eol, write_pipe, read_pipe, result, hist>>

\* lines 141-142 when the pipe holds a line: response += line; line = readline()
ReadLine ==
    /\ pc = "read"
    /\ read_pipe = "open"
    /\ fromPeer # <<>>
    /\ response' = response \o line
    /\ line' = Head(fromPeer)
    /\ fromPeer' = Tail(fromPeer)
    /\ consumed' = Append(consumed, Head(fromPeer))
    /\ nRead' = nRead + 1
    /\ pc' = "test"
    /\ UNCHANGED <<ext, env, peerClosed, sent, calls, command, write_pipe_name,
                   read_pipe_name, eol, files, result, written,
                   nExistsW, nExistsR, nOpenW, nOpenR>>

\* lines 141-142 with end of file raising EOFError
ReadEOF_Raises ==
    /\ pc = "read"
    /\ read_pipe = "open"
    /\ fromPeer = <<>>
    /\ peerClosed
    /\ response' = response \o line
    /\ result' = [kind |-> "oserror", value |-> <<>>, line |-> 142]
    /\ pc' = "done"
    /\ UNCHANGED <<ext, env, peer, calls, command, write_pipe_name, read_pipe_name,
                   eol, line, files, hist>>

\* lines 141-142 with end of file ending the loop
ReadEOF_Breaks ==
    /\ pc = "read"
    /\ read_pipe = "open"
    /\ fromPeer = <<>>
    /\ peerClosed
    /\ response' = response \o line
    /\ line' = <<>>
    /\ pc' = "close_write"
    /\ UNCHANGED <<ext, env, peer, calls, command, write_pipe_name, read_pipe_name,
                   eol, files, result, hist>>

\* lines 141-142 at end of file: readline() returns ""
ReadEOF ==
    /\ pc = "read"
    /\ read_pipe = "open"
    /\ fromPeer = <<>>
    /\ peerClosed
    /\ response' = response \o line
    /\ line' = <<>>
    /\ pc' = "test"
    /\ UNCHANGED <<ext, env, peer, calls, command, write_pipe_name, read_pipe_name,
                   eol, files, result, hist>>

\* lines 143-144 with the loop ending at end of file, not at a blank line
LoopTest_BreaksAtEOF ==
    /\ pc = "test"
    /\ pc' = IF line = <<>> /\ Len(response) > 0 THEN "close_write" ELSE "read"
    /\ UNCHANGED <<ext, env, peer, calls, locals, files, result, hist>>

\* lines 143-144
LoopTest ==
    /\ pc = "test"
    /\ pc' = IF ShouldBreak(line, response) THEN "close_write" ELSE "read"
    /\ UNCHANGED <<ext, env, peer, calls, locals, files, result, hist>>

\* lines 146-151 with the two close() calls swapped
CloseWrite_InboundFirst ==
    /\ pc = "close_write"
    /\ read_pipe' = "closed"
    /\ pc' = "close_read"
    /\ UNCHANGED <<ext, env, peer, calls, locals, write_pipe, wbuf, delivered,
                   result, hist>>

\* lines 146-149: close() flushes what is still buffered
CloseWrite ==
    /\ pc = "close_write"
    /\ write_pipe' = "closed"
    /\ delivered' = delivered \o wbuf
    /\ wbuf' = <<>>
    /\ pc' = "close_read"
    /\ UNCHANGED <<ext, env, peer, calls, locals, read_pipe, result, hist>>

\* line 151 left out
CloseRead_Omitted ==
    /\ pc = "close_read"
    /\ pc' = "inspect"
    /\ UNCHANGED <<ext, env, peer, calls, locals, files, result, hist>>

\* line 151
CloseRead ==
    /\ pc = "close_read"
    /\ read_pipe' = "closed"
    /\ pc' = "inspect"
    /\ UNCHANGED <<ext, env, peer, calls, locals, write_pipe, wbuf, delivered,
                   result, hist>>

\* lines 154-157 without the failure test: whatever was read is returned
Inspect_NeverRaises ==
    /\ pc = "inspect"
    /\ result' = [kind |-> "return", value |-> response, line |-> 157]
    /\ pc' = "done"
    /\ UNCHANGED <<ext, env, peer, calls, locals, files, hist>>

\* lines 154-157 returning response + line
Inspect_WithLastLine ==
    /\ pc = "inspect"
    /\ result' = IF Failed(response)
                   THEN [kind |-> "raise", value |-> response, line |-> 155]
                   ELSE [kind |-> "return", value |-> response \o line, line |-> 157]
    /\ pc' = "done"
    /\ UNCHANGED <<ext, env, peer, calls, locals, files, hist>>

\* lines 154-157
Inspect ==
    /\ pc = "inspect"
    /\ result' = IF Failed(response)
                   THEN [kind |-> "raise", value |-> response, line |-> 155]
                   ELSE [kind |-> "return", value |-> response, line |-> 157]
    /\ pc' = "done"
    /\ UNCHANGED <<ext, env, peer, calls, locals, files, hist>>

Next ==
    \/ \E l \in PeerLines : PeerSend(l)
    \/ PeerClose
    \/ \E c \in Commands : DoEnter(c)
    \/ CheckWrite
    \/ CheckRead
    \/ OpenWrite
    \/ OpenRead
    \/ Write
    \/ Flush
    \/ ReadLine
    \/ ReadEOF
    \/ LoopTest
    \/ CloseWrite
    \/ CloseRead
    \/ Inspect

Spec == Init /\ [][Next]_vars

TypeOK ==
    /\ pc \in {"idle", "check_write", "check_read", "open_write", "open_read",
               "write", "flush", "read", "test", "close_write", "close_read",
               "inspect", "done"}
    /\ write_pipe \in {"unset", "open", "closed"}
    /\ read_pipe \in {"unset", "open", "closed"}
    /\ result.kind \in {"none", "return", "raise", "oserror"}
    /\ calls \in 0..MaxCalls
    /\ sent \in 0..MaxLines


\* ------------------------------------------------ do() with failing I/O
\* an OSError raised by the statement at line ln leaves do() at once:
\* no except or finally clause surrounds lines 132-151
IOError(ln) == [kind |-> "oserror", value |-> <<>>, line |-> ln]

\* line 132 when _open raises: nothing has been opened
OpenWriteFails ==
    /\ pc = "open_write"
    /\ result' = IOError(132)
    /\ pc' = "done"
    /\ UNCHANGED <<ext, env, peer, calls, locals, files, hist>>

\* line 133 when _open raises: the outbound file object stays as it is
OpenReadFails ==
    /\ pc = "open_read"
    /\ result' = IOError(133)
    /\ pc' = "done"
    /\ UNCHANGED <<ext, env, peer, calls, locals, files, hist>>

\* line 135 when write() raises
WriteFails ==
    /\ pc = "write"
    /\ write_pipe = "open"
    /\ result' = IOError(135)
    /\ pc' = "done"
    /\ UNCHANGED <<ext, env, peer, calls, locals, files, hist>>

\* line 136 when flush() raises: the text stays in the buffer
FlushFails ==
    /\ pc = "flush"
    /\ write_pipe = "open"
    /\ result' = IOError(136)
    /\ pc' = "done"
    /\ UNCHANGED <<ext, env, peer, calls, locals, files, hist>>

\* lines 141-142 when readline() raises, with try/finally closing both files
ReadFails_ClosesBoth ==
    /\ pc = "read"
    /\ read_pipe = "open"
    /\ response' = response \o line
    /\ result' = IOError(142)
    /\ write_pipe' = "closed"
    /\ read_pipe' = "closed"
    /\ pc' = "done"
    /\ UNCHANGED <<ext, env, peer, calls, command, write_pipe_name, read_pipe_name,
                   eol, line, wbuf, delivered, hist>>

\* lines 141-142 when readline() raises
ReadFails ==
    /\ pc = "read"
    /\ read_pipe = "open"
    /\ response' = response \o line
    /\ result' = IOError(142)
    /\ pc' = "done"
    /\ UNCHANGED <<ext, env, peer, calls, command, write_pipe_name, read_pipe_name,
                   eol, line, files, hist>>

NextFail ==
    \/ Next
    \/ OpenWriteFails
    \/ OpenReadFails
    \/ WriteFails
    \/ FlushFails
    \/ ReadFails

\* I/O can only fail once both endpoints were found: one such environment
InitFail ==
    /\ Init
    /\ platform = "linux"
    /\ uid = MaxUid
    /\ fs = {WritePipeName(platform, uid), ReadPipeName(platform, uid)}

SpecFail == InitFail /\ [][NextFail]_vars

\* ------------------------------------------- two callers, no serialization
\* A second thread calls do() once while the first caller runs the actions
\* above.  Both use the same two endpoints; each has its own locals and file
\* objects.  The peer answers a delivered command with its echo and a blank
\* line.
caller1 == <<pc, calls, locals, files, result, hist>>

\* lines 102-110 for the second caller, waiting for the first to be outside do()
DoEnter2_Serialized(c) ==
    /\ pc \in {"idle", "done"}
    /\ pc2 = "idle"
    /\ command2' = c
    /\ pc2' = "check_write"
    /\ UNCHANGED <<wrap, caller1, env, peer, write_pipe2, read_pipe2, wbuf2,
                   response2, line2, result2, delivered2, consumed2,
                   answered>>

\* lines 102-110 for the second caller
DoEnter2(c) ==
    /\ pc2 = "idle"
    /\ command2' = c
    /\ pc2' = "check_write"
    /\ UNCHANGED <<wrap, caller1, env, peer, write_pipe2, read_pipe2, wbuf2,
                   response2, line2, result2, delivered2, consumed2,
                   answered>>

\* lines 112-120
CheckWrite2 ==
    /\ pc2 = "check_write"
    /\ IF WritePipeName(platform, uid) \notin fs
         THEN /\ result2' = MissingEndpoint(WritePipeName(platform, uid), 113)
              /\ pc2' = "done"
         ELSE /\ result2' = result2
              /\ pc2' = "check_read"
    /\ UNCHANGED <<wrap, caller1, env, peer, command2, write_pipe2,
                   read_pipe2, wbuf2, response2, line2, delivered2,
                   consumed2, answered>>

\* lines 122-130
CheckRead2 ==
    /\ pc2 = "check_read"
    /\ IF ReadPipeName(platform, uid) \notin fs
         THEN /\ result2' = MissingEndpoint(ReadPipeName(platform, uid), 123)
              /\ pc2' = "done"
         ELSE /\ result2' = result2
              /\ pc2' = "open_write"
    /\ UNCHANGED <<wrap, caller1, env, peer, command2, write_pipe2,
                   read_pipe2, wbuf2, response2, line2, delivered2,
                   consumed2, answered>>

\* line 132
OpenWrite2 ==
    /\ pc2 = "open_write"
    /\ write_pipe2' = "open"
    /\ pc2' = "open_read"
    /\ UNCHANGED <<wrap, caller1, env, peer, command2, read_pipe2, wbuf2,
                   response2, line2, result2, delivered2, consumed2,
                   answered>>

\* line 133
OpenRead2 ==
    /\ pc2 = "open_read"
    /\ read_pipe2' = "open"
    /\ pc2' = "write"
    /\ UNCHANGED <<wrap, caller1, env, peer, command2, write_pipe2, wbuf2,
                   response2, line2, result2, delivered2, consumed2,
                   answered>>

\* line 135
Write2 ==
    /\ pc2 = "write"
    /\ write_pipe2 = "open"
    /\ wbuf2' = wbuf2 \o WriteArg(command2, Eol(platform))
    /\ pc2' = "flush"
    /\ UNCHANGED <<wrap, caller1, env, peer, command2, write_pipe2,
                   read_pipe2, response2, line2, result2, delivered2,
                   consumed2, answered>>

\* lines 136-139
Flush2 ==
    /\ pc2 = "flush"
    /\ write_pipe2 = "open"
    /\ delivered2' = delivered2 \o wbuf2
    /\ wbuf2' = <<>>
    /\ response2' = <<>>
    /\ line2' = <<>>
    /\ pc2' = "read"
    /\ UNCHANGED <<wrap, caller1, env, peer, command2, write_pipe2,
                   read_pipe2, result2, consumed2, answered>>

\* lines 141-142: the second caller reads from the same inbound pipe
ReadLine2 ==
    /\ pc2 = "read"
    /\ read_pipe2 = "open"
    /\ fromPeer # <<>>
    /\ response2' = response2 \o line2
    /\ line2' = Head(fromPeer)
    /\ fromPeer' = Tail(fromPeer)
    /\ consumed2' = Append(consumed2, Head(fromPeer))
    /\ pc2' = "test"
    /\ UNCHANGED <<wrap, caller1, env, peerClosed, sent, command2,
                   write_pipe2, read_pipe2, wbuf2, result2, delivered2,
                   answered>>

\* lines 143-144
LoopTest2 ==
    /\ pc2 = "test"
    /\ pc2' = IF ShouldBreak(line2, response2) THEN "close_write" ELSE "read"
    /\ UNCHANGED <<wrap, caller1, env, peer, command2, write_pipe2,
                   read_pipe2, wbuf2, response2, line2, result2, delivered2,
                   consumed2, answered>>

\* lines 146-149
CloseWrite2 ==
    /\ pc2 = "close_write"
    /\ write_pipe2' = "closed"
    /\ delivered2' = delivered2 \o wbuf2
    /\ wbuf2' = <<>>
    /\ pc2' = "close_read"
    /\ UNCHANGED <<wrap, caller1, env, peer, command2, read_pipe2, response2,
                   line2, result2, consumed2, answered>>

\* line 151
CloseRead2 ==
    /\ pc2 = "close_read"
    /\ read_pipe2' = "closed"
    /\ pc2' = "inspect"
    /\ UNCHANGED <<wrap, caller1, env, peer, command2, write_pipe2, wbuf2,
                   response2, line2, result2, delivered2, consumed2,
                   answered>>

\* lines 154-157
Inspect2 ==
    /\ pc2 = "inspect"
    /\ result2' = IF Failed(response2)
                    THEN [kind |-> "raise", value |-> response2, line |-> 155]
                    ELSE [kind |-> "return", value |-> response2, line |-> 157]
    /\ pc2' = "done"
    /\ UNCHANGED <<wrap, caller1, env, peer, command2, write_pipe2,
                   read_pipe2, wbuf2, response2, line2, delivered2,
                   consumed2, answered>>

\* the text a caller delivered, without the terminator: the command the peer runs
DeliveredCommand(text) == SubSeq(text, 1, Len(text) - Len(Eol(platform)))

\* the text caller i got into the outbound pipe
DeliveredBy(i) == IF i = 1 THEN delivered ELSE delivered2

\* the peer answers the command of caller i: its echo, then a blank line
PeerAnswer(i) ==
    /\ i \notin answered
    /\ DeliveredBy(i) # <<>>
    /\ fromPeer' = fromPeer \o <<DeliveredCommand(DeliveredBy(i)) \o NL, NL>>
    /\ answered' = answered \cup {i}
    /\ UNCHANGED <<wrap, caller1, env, peerClosed, sent, pc2, command2,
                   write_pipe2, read_pipe2, wbuf2, response2, line2, result2,
                   delivered2, consumed2>>

NextConc ==
    \/ \E c \in Commands : DoEnter(c)
    \/ CheckWrite
    \/ CheckRead
    \/ OpenWrite
    \/ OpenRead
    \/ Write
    \/ Flush
    \/ ReadLine
    \/ LoopTest
    \/ CloseWrite
    \/ CloseRead
    \/ Inspect
    \/ \E c \in Commands : DoEnter2(c)
    \/ CheckWrite2
    \/ CheckRead2
    \/ OpenWrite2
    \/ OpenRead2
    \/ Write2
    \/ Flush2
    \/ ReadLine2
    \/ LoopTest2
    \/ CloseWrite2
    \/ CloseRead2
    \/ Inspect2
    \/ \E i \in {1, 2} : PeerAnswer(i)

SpecConc == InitFail /\ [][NextConc]_vars

\* ------------------------------------------------- the wrapper functions
\* Python values: type name t; n is the number of an int, the number of
\* tenths of a float, 1 or 0 for True or False; s is the text of a str
PyFloat(tenths) == [t |-> "float", n |-> tenths, s |-> <<>>]

PyInt(i) == [t |-> "int", n |-> i, s |-> <<>>]

PyBool(b) == [t |-> "bool", n |-> IF b THEN 1 ELSE 0, s |-> <<>>]

PyStr(text) == [t |-> "str", n |-> 0, s |-> text]

\* None
PyNone == [t |-> "NoneType", n |-> 0, s |-> <<>>]

\* a member of an AudacityOptionEnum class (enums.py): s is its value
PyEnum(value) == [t |-> "enum", n |-> 0, s |-> value]

\* isinstance(v, types); bool is a subclass of int
IsInstance(v, types) == v.t \in types \/ (v.t = "bool" /\ "int" \in types)

\* the value of a number in tenths, for comparisons
Tenths(v) == IF v.t = "float" THEN v.n ELSE 10 * v.n

\* str(v), which is also what "{}".format(v) puts in; an enum member's
\* __str__ (enums.py line 5) gives its value
StrOf(v) ==
    CASE v.t = "str" -> v.s
      [] v.t = "enum" -> v.s
      [] v.t = "NoneType" -> <<"N","o","n","e">>
      [] v.t = "bool" -> IF v.n = 1 THEN <<"T","r","u","e">> ELSE <<"F","a","l","s","e">>
      [] v.t = "int" -> IF v.n < 0 THEN <<"-">> \o str(-v.n) ELSE str(v.n)
      [] v.t = "float" ->
           LET a == IF v.n < 0 THEN -v.n ELSE v.n
           IN (IF v.n < 0 THEN <<"-">> ELSE <<>>) \o str(a \div 10) \o <<".">> \o str(a % 10)

UpperCase == <<"A","B","C","D","E","F","G","H","I","J","K","L","M","N","O","P","Q","R","S","T","U","V","W","X","Y","Z">>
LowerCase == <<"a","b","c","d","e","f","g","h","i","j","k","l","m","n","o","p","q","r","s","t","u","v","w","x","y","z">>

IsUpper(ch) == \E i \in 1..26 : UpperCase[i] = ch

IsLower(ch) == \E i \in 1..26 : LowerCase[i] = ch

LowerCh(ch) == IF IsUpper(ch) THEN LowerCase[CHOOSE i \in 1..26 : UpperCase[i] = ch] ELSE ch

UpperCh(ch) == IF IsLower(ch) THEN UpperCase[CHOOSE i \in 1..26 : LowerCase[i] = ch] ELSE ch

\* text.lower()
Lower(text) == [i \in 1..Len(text) |-> LowerCh(text[i])]

\* text[0].upper() + text[1:].lower()  (the text is not empty)
UpperFirst(text) == <<UpperCh(text[1])>> \o Lower(Tail(text))

\* text.title(): a letter behind a letter is lowered, any other letter raised
Title(text) ==
    [i \in 1..Len(text) |->
        IF i > 1 /\ (IsUpper(text[i - 1]) \/ IsLower(text[i - 1]))
          THEN LowerCh(text[i]) ELSE UpperCh(text[i])]

\* the index of the first character of text at or behind position i that is
\* in chars, 0 when there is none
FirstIndex(text, i, chars) ==
    IF \E j \in i..Len(text) : text[j] \in chars
      THEN CHOOSE j \in i..Len(text) :
             /\ text[j] \in chars
             /\ \A m \in i..(j - 1) : text[m] \notin chars
      ELSE 0

ClosingBrace(text, i) == FirstIndex(text, i, {"}"})

\* text.format(*args) from argument k on: exc is "none" and s the result, or
\* exc names the exception.  "{{" and "}}" are literal braces, "{}" takes
\* the next argument, a field with a name finds no keyword argument, a brace
\* without partner is an error.  (Numbered fields and format specs do not
\* occur in the texts used here.)
RECURSIVE FormatFrom(_, _, _)
FormatFrom(text, args, k) ==
    LET b == FirstIndex(text, 1, {"{", "}"})
    IN IF b = 0 THEN [exc |-> "none", s |-> text]
       ELSE
         LET plain == SubSeq(text, 1, b - 1)
             two   == b < Len(text)
             stop  == ClosingBrace(text, b + 1)
             behind == SubSeq(text, b + 2, Len(text))
             join(piece, rest) ==
                 IF rest.exc = "none"
                   THEN [exc |-> "none", s |-> plain \o piece \o rest.s]
                   ELSE rest
         IN CASE text[b] = "{" /\ two /\ text[b + 1] = "{" ->
                   join(<<"{">>, FormatFrom(behind, args, k))
              [] text[b] = "{" /\ ~(two /\ text[b + 1] = "{") ->
                   IF stop = 0 THEN [exc |-> "ValueError", s |-> <<>>]
                   ELSE IF stop > b + 1 THEN [exc |-> "KeyError", s |-> <<>>]
                   ELSE IF k > Len(args) THEN [exc |-> "IndexError", s |-> <<>>]
                   ELSE join(StrOf(args[k]), FormatFrom(behind, args, k + 1))
              [] text[b] = "}" ->
                   IF two /\ text[b + 1] = "}"
                     THEN join(<<"}">>, FormatFrom(behind, args, k))
                     ELSE [exc |-> "ValueError", s |-> <<>>]

\* text.format(*args)
Format(text, args) == FormatFrom(text, args, 1)

\* Each wrapper: its checks in order, the text of its command, where
\* .format() is applied ("before" do() is called, "after" it returned,
\* "none"), and the line of its return statement.  A check names the
\* argument it tests and the line of its raise:
\*   isinstance  not isinstance(arg, types)
\*   exists      not Path(arg).exists()
\*   lower_in    arg.lower() not in choices
\*   between     not (lo <= arg <= hi), in tenths
\*   nonneg      arg < 0
\*   title_in    arg.title() not in choices
\*   in          arg not in choices, a list of str: only a str equals a str
new ==
    [arity |-> 0,
     checks |-> <<>>,
     template |-> <<"N","e","w">>,
     format |-> "none",
     line |-> 167]

open ==
    [arity |-> 2,
     checks |-> <<
             [kind |-> "isinstance", arg |-> 1, types |-> {"Path", "str"}, choices |-> {},
              lo |-> 0, hi |-> 0, line |-> 174],
             [kind |-> "exists", arg |-> 1, types |-> {}, choices |-> {},
              lo |-> 0, hi |-> 0, line |-> 179],
             [kind |-> "isinstance", arg |-> 2, types |-> {"bool"}, choices |-> {},
              lo |-> 0, hi |-> 0, line |-> 181]>>,
     template |-> <<"O","p","e","n","P","r","o","j","e","c","t","2",":"," ","F","i","l","e","n","a","m","e","=","\"","{","}","\""," ","A","d","d","T","o","H","i","s","t","o","r","y","=","\"","{","}","\"">>,
     format |-> "before",
     line |-> 186]

chirp ==
    [arity |-> 6,
     checks |-> <<
             [kind |-> "isinstance", arg |-> 1, types |-> {"float", "int"}, choices |-> {},
              lo |-> 0, hi |-> 0, line |-> 1436],
             [kind |-> "isinstance", arg |-> 2, types |-> {"float", "int"}, choices |-> {},
              lo |-> 0, hi |-> 0, line |-> 1441],
             [kind |-> "isinstance", arg |-> 3, types |-> {"float", "int"}, choices |-> {},
              lo |-> 0, hi |-> 0, line |-> 1446],
             [kind |-> "isinstance", arg |-> 4, types |-> {"float", "int"}, choices |-> {},
              lo |-> 0, hi |-> 0, line |-> 1451],
             [kind |-> "lower_in", arg |-> 5, types |-> {}, choices |-> {<<"s","i","n","e">>, <<"s","q","u","a","r","e">>, <<"s","a","w","t","o","o","t","h">>, <<"s","q","u","a","r","e",","," ","n","o"," ","a","l","i","a","s">>},
              lo |-> 0, hi |-> 0, line |-> 1458],
             [kind |-> "lower_in", arg |-> 6, types |-> {}, choices |-> {<<"l","i","n","e","a","r">>, <<"l","o","g","a","r","i","t","h","m","i","c">>},
              lo |-> 0, hi |-> 0, line |-> 1462],
             [kind |-> "between", arg |-> 3, types |-> {}, choices |-> {},
              lo |-> 0, hi |-> 10, line |-> 1467],
             [kind |-> "between", arg |-> 4, types |-> {}, choices |-> {},
              lo |-> 0, hi |-> 10, line |-> 1471],
             [kind |-> "nonneg", arg |-> 1, types |-> {}, choices |-> {},
              lo |-> 0, hi |-> 0, line |-> 1473],
             [kind |-> "nonneg", arg |-> 2, types |-> {}, choices |-> {},
              lo |-> 0, hi |-> 0, line |-> 1475]>>,
     template |-> <<"C","h","i","r","p",":"," ","S","t","a","r","t","F","r","e","q","=","\"","{","}","\""," ","E","n","d","F","r","e","q","=","\"","{","}","\""," ","S","t","a","r","t","A","m","p","=","\"","{","}","\""," ","E","n","d","A","m","p","=","\"","{","}","\""," ","W","a","v","e","f","o","r","m","=","\"","{","}","\""," ","I","n","t","e","r","p","o","l","a","t","i","o","n","=","\"","{","}","\"">>,
     format |-> "before",
     line |-> 1483]

amplify ==
    [arity |-> 2,
     checks |-> <<
             [kind |-> "isinstance", arg |-> 1, types |-> {"float", "int"}, choices |-> {},
              lo |-> 0, hi |-> 0, line |-> 1755],
             [kind |-> "isinstance", arg |-> 2, types |-> {"bool"}, choices |-> {},
              lo |-> 0, hi |-> 0, line |-> 1759]>>,
     template |-> <<"A","m","p","l","i","f","y",":"," ","R","a","t","i","o","=","\"","{","}","\""," ","A","l","l","o","w","C","l","i","p","p","i","n","g","=","\"","{","}","\"">>,
     format |-> "before",
     line |-> 1764]

bass_and_treble ==
    [arity |-> 4,
     checks |-> <<
             [kind |-> "isinstance", arg |-> 1, types |-> {"float", "int"}, choices |-> {},
              lo |-> 0, hi |-> 0, line |-> 1835],
             [kind |-> "isinstance", arg |-> 2, types |-> {"float", "int"}, choices |-> {},
              lo |-> 0, hi |-> 0, line |-> 1839],
             [kind |-> "isinstance", arg |-> 3, types |-> {"float", "int"}, choices |-> {},
              lo |-> 0, hi |-> 0, line |-> 1843],
             [kind |-> "isinstance", arg |-> 4, types |-> {"bool"}, choices |-> {},
              lo |-> 0, hi |-> 0, line |-> 1847]>>,
     template |-> <<"B","a","s","s","A","n","d","T","r","e","b","l","e",":"," ","B","a","s","s","=","\"","{","}","\""," ","T","r","e","b","l","e","=","\"","{","}","\""," ","G","a","i","n","=","\"","{","}","\""," ","L","i","n","k","S","l","i","d","e","r","s","=","\"","{","}","\"">>,
     format |-> "none",
     line |-> 1854]

notch_filter ==
    [arity |-> 2,
     checks |-> <<
             [kind |-> "isinstance", arg |-> 1, types |-> {"float", "int"}, choices |-> {},
              lo |-> 0, hi |-> 0, line |-> 2551],
             [kind |-> "isinstance", arg |-> 2, types |-> {"float", "int"}, choices |-> {},
              lo |-> 0, hi |-> 0, line |-> 2555]>>,
     template |-> <<"N","o","t","c","h","F","i","l","t","e","r",":"," ","f","r","e","q","u","e","n","c","y","=","\"","{","}","\""," ","q","=","\"","{","}","\"">>,
     format |-> "after",
     line |-> 2560]

spectral_edit_parametric_eq ==
    [arity |-> 1,
     checks |-> <<
             [kind |-> "isinstance", arg |-> 1, types |-> {"float", "int"}, choices |-> {},
              lo |-> 0, hi |-> 0, line |-> 2577]>>,
     template |-> <<"S","p","e","c","t","r","a","l","E","d","i","t","P","a","r","a","m","e","t","r","i","c","E","q",":"," ","c","o","n","t","r","o","l","-","g","a","i","n","=","\"","{","}","\"">>,
     format |-> "after",
     line |-> 2583]

spectral_edit_shelves ==
    [arity |-> 1,
     checks |-> <<
             [kind |-> "isinstance", arg |-> 1, types |-> {"float", "int"}, choices |-> {},
              lo |-> 0, hi |-> 0, line |-> 2592]>>,
     template |-> <<"S","p","e","c","t","r","a","l","E","d","i","t","S","h","e","l","v","e","s",":"," ","c","o","n","t","r","o","l","-","g","a","i","n","=","\"","{","}","\"">>,
     format |-> "after",
     line |-> 2597]

tremolo ==
    [arity |-> 4,
     checks |-> <<
             [kind |-> "isinstance", arg |-> 2, types |-> {"int"}, choices |-> {},
              lo |-> 0, hi |-> 0, line |-> 2621],
             [kind |-> "isinstance", arg |-> 3, types |-> {"int"}, choices |-> {},
              lo |-> 0, hi |-> 0, line |-> 2623],
             [kind |-> "isinstance", arg |-> 4, types |-> {"float", "int"}, choices |-> {},
              lo |-> 0, hi |-> 0, line |-> 2625]>>,
     template |-> <<"T","r","e","m","o","l","o",":"," ","w","a","v","e","=","\"","{","}","\""," ","p","h","a","s","e","=","\"","{","}","\""," ","w","e","t","=","\"","{","}","\""," ","l","f","o","=","\"","{","}","\"">>,
     format |-> "after",
     line |-> 2630]

save ==
    [arity |-> 4,
     checks |-> <<
             [kind |-> "isinstance", arg |-> 2, types |-> {"bool"}, choices |-> {},
              lo |-> 0, hi |-> 0, line |-> 235],
             [kind |-> "isinstance", arg |-> 3, types |-> {"bool"}, choices |-> {},
              lo |-> 0, hi |-> 0, line |-> 239]>>,
     template |-> <<"S","a","v","e","P","r","o","j","e","c","t","2",":"," ","F","i","l","e","n","a","m","e","=","\"","{","}","\""," ","A","d","d","T","o","H","i","s","t","o","r","y","=","\"","{","}","\""," ","C","o","m","p","r","e","s","s","=","\"","{","}","\"">>,
     format |-> "before",
     line |-> 244]

noise ==
    [arity |-> 2,
     checks |-> <<
             [kind |-> "in", arg |-> 1, types |-> {}, choices |-> {<<"W","h","i","t","e">>, <<"P","i","n","k">>, <<"B","r","o","w","n","i","a","n">>},
              lo |-> 0, hi |-> 0, line |-> 1497],
             [kind |-> "isinstance", arg |-> 2, types |-> {"float", "int"}, choices |-> {},
              lo |-> 0, hi |-> 0, line |-> 1502],
             [kind |-> "between", arg |-> 2, types |-> {}, choices |-> {},
              lo |-> 0, hi |-> 10, line |-> 1506]>>,
     template |-> <<"N","o","i","s","e",":"," ","T","y","p","e","=","\"","{","}","\""," ","A","m","p","l","i","t","u","d","e","=","\"","{","}","\"">>,
     format |-> "before",
     line |-> 1509]

tone ==
    [arity |-> 3,
     checks |-> <<
             [kind |-> "isinstance", arg |-> 1, types |-> {"float", "int"}, choices |-> {},
              lo |-> 0, hi |-> 0, line |-> 1525],
             [kind |-> "isinstance", arg |-> 2, types |-> {"float", "int"}, choices |-> {},
              lo |-> 0, hi |-> 0, line |-> 1529],
             [kind |-> "lower_in", arg |-> 3, types |-> {}, choices |-> {<<"s","i","n","e">>, <<"s","q","u","a","r","e">>, <<"s","a","w","t","o","o","t","h">>, <<"s","q","u","a","r","e",","," ","n","o"," ","a","l","i","a","s">>},
              lo |-> 0, hi |-> 0, line |-> 1533]>>,
     template |-> <<"T","o","n","e",":"," ","F","r","e","q","u","e","n","c","y","=","\"","{","}","\""," ","A","m","p","l","i","t","u","d","e","=","\"","{","}","\""," ","W","a","v","e","f","o","r","m","=","\"","{","}","\"">>,
     format |-> "before",
     line |-> 1540]

rhythm_track ==
    [arity |-> 9,
     checks |-> <<
             [kind |-> "isinstance", arg |-> 1, types |-> {"float", "int"}, choices |-> {},
              lo |-> 0, hi |-> 0, line |-> 1596],
             [kind |-> "isinstance", arg |-> 2, types |-> {"int"}, choices |-> {},
              lo |-> 0, hi |-> 0, line |-> 1600],
             [kind |-> "isinstance", arg |-> 3, types |-> {"float", "int"}, choices |-> {},
              lo |-> 0, hi |-> 0, line |-> 1604],
             [kind |-> "isinstance", arg |-> 4, types |-> {"int"}, choices |-> {},
              lo |-> 0, hi |-> 0, line |-> 1608],
             [kind |-> "isinstance", arg |-> 5, types |-> {"float", "int"}, choices |-> {},
              lo |-> 0, hi |-> 0, line |-> 1612],
             [kind |-> "isinstance", arg |-> 6, types |-> {"float", "int"}, choices |-> {},
              lo |-> 0, hi |-> 0, line |-> 1617],
             [kind |-> "lower_in", arg |-> 7, types |-> {}, choices |-> {<<"m","e","t","r","o","n","o","m","e"," ","t","i","c","k">>, <<"p","i","n","g"," ","(","s","h","o","r","t",")">>, <<"p","i","n","g"," ","(","l","o","n","g",")">>, <<"c","o","w","b","e","l","l">>, <<"r","e","s","o","n","a","n","t"," ","n","o","i","s","e">>, <<"n","o","i","s","e"," ","c","l","i","c","k">>, <<"d","r","i","p"," ","(","s","h","o","r","t",")">>, <<"d","r","i","p"," ","(","l","o","n","g",")">>},
              lo |-> 0, hi |-> 0, line |-> 1622],
             [kind |-> "isinstance", arg |-> 8, types |-> {"int"}, choices |-> {},
              lo |-> 0, hi |-> 0, line |-> 1635],
             [kind |-> "isinstance", arg |-> 9, types |-> {"int"}, choices |-> {},
              lo |-> 0, hi |-> 0, line |-> 1640]>>,
     template |-> <<"R","h","y","t","h","m","T","r","a","c","k",":"," ","t","e","m","p","o","=","\"","{","}","\""," ","t","i","m","e","s","i","g","=","\"","{","}","\""," ","s","w","i","n","g","=","\"","{","}","\""," ","b","a","r","s","=","\"","{","}","\""," ","c","l","i","c","k","-","t","r","a","c","k","-","d","u","r","=","\"","{","}","\""," ","o","f","f","s","e","t","=","\"","{","}","\""," ","c","l","i","c","k","-","t","y","p","e","=","\"","{","}","\""," ","h","i","g","h","=","\"","{","}","\""," ","l","o","w","=","\"","{","}","\"">>,
     format |-> "before",
     line |-> 1658]

get_info ==
    [arity |-> 2,
     checks |-> <<
             [kind |-> "title_in", arg |-> 1, types |-> {}, choices |-> {<<"C","o","m","m","a","n","d","s">>, <<"M","e","n","u","s">>, <<"P","r","e","f","e","r","e","n","c","e","s">>, <<"T","r","a","c","k","s">>, <<"C","l","i","p","s">>, <<"E","n","v","e","l","o","p","e","s">>, <<"L","a","b","e","l","s">>, <<"B","o","x","e","s">>},
              lo |-> 0, hi |-> 0, line |-> 4388],
             [kind |-> "title_in", arg |-> 2, types |-> {}, choices |-> {<<"J","S","O","N">>, <<"L","I","S","P">>, <<"B","r","i","e","f">>},
              lo |-> 0, hi |-> 0, line |-> 4401]>>,
     template |-> <<"G","e","t","I","n","f","o",":"," ","T","y","p","e","=","\"","{","}","\""," ","F","o","r","m","a","t","=","\"","{","}","\"">>,
     format |-> "before",
     line |-> 4406]

\* wrappers whose arguments may be None: template is the text in front of
\* the joined pairs, keys the key of each parameter
select_time ==
    [arity |-> 3,
     checks |-> <<
             [kind |-> "isinstance", arg |-> 1, types |-> {"NoneType", "float", "int"}, choices |-> {},
              lo |-> 0, hi |-> 0, line |-> 3626],
             [kind |-> "isinstance", arg |-> 2, types |-> {"NoneType", "float", "int"}, choices |-> {},
              lo |-> 0, hi |-> 0, line |-> 3630],
             [kind |-> "isinstance", arg |-> 3, types |-> {"NoneType", "str"}, choices |-> {},
              lo |-> 0, hi |-> 0, line |-> 3634]>>,
     template |-> <<"S","e","l","e","c","t","T","i","m","e",":"," ">>,
     keys |-> <<<<"S","t","a","r","t">>, <<"E","n","d">>, <<"R","e","l","a","t","i","v","e","T","o">>>>,
     format |-> "join",
     line |-> 3648]

select_frequencies ==
    [arity |-> 2,
     checks |-> <<
             [kind |-> "isinstance", arg |-> 1, types |-> {"NoneType", "float", "int"}, choices |-> {},
              lo |-> 0, hi |-> 0, line |-> 3664],
             [kind |-> "isinstance", arg |-> 2, types |-> {"NoneType", "float", "int"}, choices |-> {},
              lo |-> 0, hi |-> 0, line |-> 3668]>>,
     template |-> <<"S","e","l","e","c","t","F","r","e","q","u","e","n","c","i","e","s",":"," ">>,
     keys |-> <<<<"H","i","g","h">>, <<"L","o","w">>>>,
     format |-> "join",
     line |-> 3680]

select_tracks ==
    [arity |-> 5,
     checks |-> <<
             [kind |-> "isinstance", arg |-> 1, types |-> {"NoneType", "int"}, choices |-> {},
              lo |-> 0, hi |-> 0, line |-> 3699],
             [kind |-> "isinstance", arg |-> 2, types |-> {"NoneType", "int"}, choices |-> {},
              lo |-> 0, hi |-> 0, line |-> 3701],
             [kind |-> "isinstance", arg |-> 3, types |-> {"NoneType", "int"}, choices |-> {},
              lo |-> 0, hi |-> 0, line |-> 3703],
             [kind |-> "isinstance", arg |-> 4, types |-> {"NoneType", "str"}, choices |-> {},
              lo |-> 0, hi |-> 0, line |-> 3705],
             [kind |-> "isinstance", arg |-> 5, types |-> {"NoneType", "int"}, choices |-> {},
              lo |-> 0, hi |-> 0, line |-> 3707]>>,
     template |-> <<"S","e","l","e","c","t","T","r","a","c","k","s",":"," ">>,
     keys |-> <<<<"F","i","r","s","t">>, <<"L","a","s","t">>, <<"T","r","a","c","k">>, <<"M","o","d","e">>, <<"T","r","a","c","k","C","o","u","n","t">>>>,
     format |-> "join",
     line |-> 3724]

set_track_status ==
    [arity |-> 5,
     checks |-> <<
             [kind |-> "isinstance", arg |-> 1, types |-> {"NoneType", "int"}, choices |-> {},
              lo |-> 0, hi |-> 0, line |-> 3743],
             [kind |-> "isinstance", arg |-> 2, types |-> {"NoneType", "int"}, choices |-> {},
              lo |-> 0, hi |-> 0, line |-> 3745],
             [kind |-> "isinstance", arg |-> 3, types |-> {"NoneType", "str"}, choices |-> {},
              lo |-> 0, hi |-> 0, line |-> 3749],
             [kind |-> "isinstance", arg |-> 4, types |-> {"NoneType", "bool"}, choices |-> {},
              lo |-> 0, hi |-> 0, line |-> 3751],
             [kind |-> "isinstance", arg |-> 5, types |-> {"NoneType", "bool"}, choices |-> {},
              lo |-> 0, hi |-> 0, line |-> 3755]>>,
     template |-> <<"S","e","t","T","r","a","c","k","S","t","a","t","u","s",":"," ">>,
     keys |-> <<<<"T","r","a","c","k">>, <<"C","h","a","n","n","e","l">>, <<"N","a","m","e">>, <<"S","e","l","e","c","t","e","d">>, <<"F","o","c","u","s","e","d">>>>,
     format |-> "join",
     line |-> 3772]

WrapperNames ==
    {"new",
     "open",
     "chirp",
     "amplify",
     "bass_and_treble",
     "notch_filter",
     "spectral_edit_parametric_eq",
     "spectral_edit_shelves",
     "tremolo"}

Wrapper(name) ==
    CASE name = "new" -> new
      [] name = "save" -> save
      [] name = "noise" -> noise
      [] name = "tone" -> tone
      [] name = "rhythm_track" -> rhythm_track
      [] name = "get_info" -> get_info
      [] name = "select_time" -> select_time
      [] name = "select_frequencies" -> select_frequencies
      [] name = "select_tracks" -> select_tracks
      [] name = "set_track_status" -> set_track_status
      [] name = "open" -> open
      [] name = "chirp" -> chirp
      [] name = "amplify" -> amplify
      [] name = "bass_and_treble" -> bass_and_treble
      [] name = "notch_filter" -> notch_filter
      [] name = "spectral_edit_parametric_eq" -> spectral_edit_parametric_eq
      [] name = "spectral_edit_shelves" -> spectral_edit_shelves
      [] name = "tremolo" -> tremolo

\* bool(v), as an if statement takes a value
Truthy(v) == IF v.t = "str" THEN v.s # <<>> ELSE v.n # 0

\* the check c rejects the arguments
Rejects(c, args) ==
    LET v == args[c.arg]
    IN CASE c.kind = "isinstance" -> ~IsInstance(v, c.types)
         [] c.kind = "exists" -> StrOf(v) \notin fs
         [] c.kind = "lower_in" -> Lower(v.s) \notin c.choices
         [] c.kind = "title_in" -> Title(v.s) \notin c.choices
         [] c.kind = "in" -> ~(v.t = "str" /\ v.s \in c.choices)
         [] c.kind = "between" -> ~(c.lo <= Tenths(v) /\ Tenths(v) <= c.hi)
         [] c.kind = "nonneg" -> Tenths(v) < 0

\* the line of the first check that rejects args, 0 when they pass them all
RECURSIVE FirstFailing(_, _)
FirstFailing(checks, args) ==
    IF checks = <<>> THEN 0
    ELSE IF Rejects(Head(checks), args)
           THEN Head(checks).line
           ELSE FirstFailing(Tail(checks), args)

\* the arguments as the checks see them: chirp (line 1433), tone (line
\* 1523) and rhythm_track (line 1594) first replace their choice arguments
\* by their str()
Prepared(name, args) ==
    CASE name = "chirp" -> [args EXCEPT ![5] = PyStr(StrOf(@)), ![6] = PyStr(StrOf(@))]
      [] name = "tone" -> [args EXCEPT ![3] = PyStr(StrOf(@))]
      [] name = "rhythm_track" -> [args EXCEPT ![7] = PyStr(StrOf(@))]
      [] OTHER -> args

\* lines 1646-1655: the dict that maps beat_sound.lower() to the macro's name
BeatSoundName(text) ==
    CASE text = <<"m","e","t","r","o","n","o","m","e"," ","t","i","c","k">> -> <<"M","e","t","r","o","n","o","m","e">>
      [] text = <<"p","i","n","g"," ","(","s","h","o","r","t",")">> -> <<"P","i","n","g"," ","(","s","h","o","r","t",")">>
      [] text = <<"p","i","n","g"," ","(","l","o","n","g",")">> -> <<"P","i","n","g"," ","(","l","o","n","g",")">>
      [] text = <<"c","o","w","b","e","l","l">> -> <<"C","o","w","b","e","l","l">>
      [] text = <<"r","e","s","o","n","a","n","t"," ","n","o","i","s","e">> -> <<"R","e","s","o","n","a","n","t","N","o","i","s","e">>
      [] text = <<"n","o","i","s","e"," ","c","l","i","c","k">> -> <<"N","o","i","s","e","C","l","i","c","k">>
      [] text = <<"d","r","i","p"," ","(","s","h","o","r","t",")">> -> <<"D","r","i","p"," ","(","s","h","o","r","t",")">>
      [] text = <<"d","r","i","p"," ","(","l","o","n","g",")">> -> <<"D","r","i","p"," ","(","l","o","n","g",")">>

\* the arguments as .format() gets them: chirp (lines 1479-1480), tone
\* (line 1538) and rhythm_track (lines 1646-1655) put their choice
\* arguments into the expected case, save (line 246) passes its first
\* three, set_track_status (lines 3768 and 3770) turns selected and focused
\* into "1" or "0"
Formatted(name, args) ==
    CASE name = "chirp" ->
           [Prepared(name, args) EXCEPT ![5] = PyStr(UpperFirst(@.s)),
                                        ![6] = PyStr(Title(@.s))]
      [] name = "tone" ->
           [Prepared(name, args) EXCEPT ![3] = PyStr(UpperFirst(@.s))]
      [] name = "rhythm_track" ->
           [Prepared(name, args) EXCEPT ![7] = PyStr(BeatSoundName(Lower(@.s)))]
      [] name = "save" -> SubSeq(args, 1, 3)
      [] name = "set_track_status" ->
           [i \in 1..Len(args) |->
               IF i \in {4, 5} /\ args[i] # PyNone
                 THEN PyStr(IF Truthy(args[i]) THEN <<"1">> ELSE <<"0">>)
                 ELSE args[i]]
      [] OTHER -> args

Validate(name, args) == FirstFailing(Wrapper(name).checks, Prepared(name, args))

\* sep.join(texts)
RECURSIVE Join(_, _)
Join(texts, sep) ==
    IF texts = <<>> THEN <<>>
    ELSE IF Len(texts) = 1 THEN texts[1]
    ELSE texts[1] \o sep \o Join(Tail(texts), sep)

\* 'Key="{}"'.format(value)
PairText(key, value) == Format(key \o <<"=", "\"", "{", "}", "\"">>, <<value>>).s

\* macro_arguments with an entry for None too
MacroArguments_KeepsNone(keys, values) ==
    [i \in 1..Len(keys) |-> PairText(keys[i], values[i])]

\* macro_arguments (lines 3640-3646): in the order of the parameters,
\* 'Key="{}"'.format(value) for each value that is not None
MacroArguments(keys, values) ==
    LET given == SelectSeq([i \in 1..Len(keys) |-> i], LAMBDA i : values[i] # PyNone)
    IN [j \in 1..Len(given) |-> PairText(keys[given[j]], values[given[j]])]

\* the argument of do() in the wrapper's return statement
CommandSent(name, args) ==
    CASE Wrapper(name).format = "before" ->
           Format(Wrapper(name).template, Formatted(name, args)).s
      [] Wrapper(name).format = "join" ->
           Wrapper(name).template
           \o Join(MacroArguments(Wrapper(name).keys, Formatted(name, args)), <<" ">>)
      [] OTHER -> Wrapper(name).template

\* what the wrapper's return statement makes of the end of do()
Returned(name, args, res) ==
    IF res.kind = "return" /\ Wrapper(name).format = "after"
      THEN LET f == Format(res.value, args)
           IN IF f.exc = "none"
                THEN [kind |-> "return", value |-> f.s, line |-> Wrapper(name).line]
                ELSE [kind |-> f.exc, value |-> <<>>, line |-> Wrapper(name).line]
      ELSE res

\* argument values tried: 0.9, 3, True, "x"
ArgValues == {PyFloat(9), PyInt(3), PyBool(TRUE), PyStr(<<"x">>)}

ArgTuples(n) == [1..n -> ArgValues]

\* chirp is tried with frequencies 440.0, -1.0 and "x", amplitudes 0.8 and 3,
\* three waveforms and two interpolations
ChirpArgs ==
    { <<f1, PyFloat(13200), a1, PyFloat(1), w, i>> :
        f1 \in {PyFloat(4400), PyFloat(-10), PyStr(<<"x">>)},
        a1 \in {PyFloat(8), PyInt(3)},
        w \in {PyStr(<<"S","i","n","e">>),
               PyStr(<<"s","q","u","a","r","e",","," ","n","o"," ","A","L","I","A","S">>),
               PyStr(<<"T","r","i","a","n","g","l","e">>)},
        i \in {PyStr(<<"L","I","N","E","A","R">>), PyStr(<<"x">>)} }

\* open is tried with the outbound endpoint's path (a file that exists when
\* the endpoint does), "x" and 3 as filename
OpenArgs ==
    { <<f, h>> :
        f \in {PyStr(WritePipeName(platform, uid)), PyStr(<<"x">>), PyInt(3)},
        h \in {PyBool(TRUE), PyStr(<<"x">>)} }

ArgDomain(name) ==
    CASE name = "chirp" -> ChirpArgs
      [] name = "open" -> OpenArgs
      [] OTHER -> ArgTuples(Wrapper(name).arity)

\* lines of the peer that str.format() does not leave alone
BraceLine == <<"{","}","\n">>
FieldLine == <<"{","a","}","\n">>
WrapLines == {NL, BraceLine, FieldLine}
MaxWrapLines == 3

\* the peer writes one line into the inbound pipe
PeerSendW(l) ==
    /\ ReadPipeName(platform, uid) \in fs
    /\ sent < MaxWrapLines
    /\ fromPeer' = Append(fromPeer, l)
    /\ sent' = sent + 1
    /\ UNCHANGED <<ext, env, peerClosed, pc, calls, locals, files, result, hist>>

\* line 232 of save: allow_overwrite and Path(filename).exists()
UnlinkDue(name, args) ==
    /\ name = "save"
    /\ Truthy(args[4])
    /\ StrOf(args[1]) \in fs

\* a wrapper is called: def line
W_Call(name, args) ==
    /\ wname = "none"
    /\ pc = "idle"
    /\ wname' = name
    /\ wargs' = args
    /\ UNCHANGED <<wresult, removed, other, env, peer, pc, calls, locals, files, result, hist>>

\* save with its checks in front of line 232
W_Raise_ChecksFirst ==
    /\ wname # "none"
    /\ wresult = NoResult
    /\ pc = "idle"
    /\ Validate(wname, wargs) # 0
    /\ wresult' = [kind |-> "raise", value |-> <<>>, line |-> Validate(wname, wargs)]
    /\ UNCHANGED <<wname, wargs, removed, other, env, peer, pc, calls, locals, files, result, hist>>

\* one of the wrapper's checks raises PyAudacityException (its message is
\* not modelled: value stays empty)
W_Raise ==
    /\ wname # "none"
    /\ wresult = NoResult
    /\ pc = "idle"
    /\ ~UnlinkDue(wname, wargs)
    /\ Validate(wname, wargs) # 0
    /\ wresult' = [kind |-> "raise", value |-> <<>>, line |-> Validate(wname, wargs)]
    /\ UNCHANGED <<wname, wargs, removed, other, env, peer, pc, calls, locals, files, result, hist>>

\* the return statement reached although a check rejects the arguments
W_InvokeDo_Unchecked ==
    /\ wname # "none"
    /\ wresult = NoResult
    /\ pc = "idle"
    /\ ~UnlinkDue(wname, wargs)
    /\ DoEnter(CommandSent(wname, wargs))

\* all checks passed: the return statement calls do()
W_InvokeDo ==
    /\ wname # "none"
    /\ wresult = NoResult
    /\ pc = "idle"
    /\ ~UnlinkDue(wname, wargs)
    /\ Validate(wname, wargs) = 0
    /\ DoEnter(CommandSent(wname, wargs))

\* do() has ended: the return statement completes
W_Return ==
    /\ wname # "none"
    /\ wresult = NoResult
    /\ pc = "done"
    /\ wresult' = Returned(wname, wargs, result)
    /\ UNCHANGED <<wname, wargs, removed, other, env, peer, pc, calls, locals, files, result, hist>>

NextWrap ==
    \/ \E name \in WrapperNames : \E args \in ArgDomain(name) : W_Call(name, args)
    \/ W_Raise
    \/ W_InvokeDo
    \/ CheckWrite
    \/ CheckRead
    \/ OpenWrite
    \/ OpenRead
    \/ Write
    \/ Flush
    \/ ReadLine
    \/ LoopTest
    \/ CloseWrite
    \/ CloseRead
    \/ Inspect
    \/ W_Return
    \/ \E l \in WrapLines : PeerSendW(l)

InitWrap ==
    /\ Init
    /\ platform = "linux"
    /\ uid = MaxUid

SpecWrap == InitWrap /\ [][NextWrap]_vars

\* ----------------------------- do() while the peer makes and removes endpoints
\* The peer (Audacity starting and stopping) creates and unlinks the two
\* POSIX FIFOs while do() runs.  Lines 132-133 then act on the file system
\* as it is at that moment, not as lines 112 and 122 found it.

\* the peer unlinks an endpoint; a file object already open on it stays usable
PeerRemove(path) ==
    /\ path \in fs
    /\ fs' = fs \ {path}
    /\ UNCHANGED <<ext, platform, uid, peer, pc, calls, locals, files, result, hist>>

\* the peer makes an endpoint (mkfifo)
PeerCreate(path) ==
    /\ path \notin fs
    /\ fs' = fs \cup {path}
    /\ UNCHANGED <<ext, platform, uid, peer, pc, calls, locals, files, result, hist>>

\* line 132: open(write_pipe_name, "w") opens the path if it exists and
\* creates a regular file of that name if it does not (what is written
\* and flushed afterwards then lands in that file)
OpenWriteNow ==
    /\ pc = "open_write"
    /\ fs' = fs \cup {write_pipe_name}
    /\ write_pipe' = "open"
    /\ nOpenW' = nOpenW + 1
    /\ pc' = "open_read"
    /\ UNCHANGED <<ext, platform, uid, peer, calls, locals, read_pipe, wbuf, delivered,
                   result, written, consumed, nExistsW, nExistsR, nOpenR, nRead>>

\* line 133: open(read_pipe_name) opens the path if it exists and raises
\* FileNotFoundError if it does not; the outbound file object stays open
OpenReadNow ==
    /\ pc = "open_read"
    /\ IF read_pipe_name \in fs
         THEN /\ read_pipe' = "open"
              /\ nOpenR' = nOpenR + 1
              /\ pc' = "write"
              /\ result' = result
         ELSE /\ result' = IOError(133)
              /\ pc' = "done"
              /\ UNCHANGED <<read_pipe, nOpenR>>
    /\ UNCHANGED <<ext, env, peer, calls, locals, write_pipe, wbuf, delivered,
                   written, consumed, nExistsW, nExistsR, nOpenW, nRead>>

Endpoints == {WritePipeName(platform, uid), ReadPipeName(platform, uid)}

NextRace ==
    \/ \E path \in Endpoints : PeerRemove(path)
    \/ \E path \in Endpoints : PeerCreate(path)
    \/ \E l \in PeerLines : PeerSend(l)
    \/ \E c \in Commands : DoEnter(c)
    \/ CheckWrite
    \/ CheckRead
    \/ OpenWriteNow
    \/ OpenReadNow
    \/ Write
    \/ Flush
    \/ ReadLine
    \/ LoopTest
    \/ CloseWrite
    \/ CloseRead
    \/ Inspect

\* POSIX only: a Windows named pipe cannot be made by open()
InitRace ==
    /\ Init
    /\ platform = "linux"
    /\ uid = MaxUid

SpecRace == InitRace /\ [][NextRace]_vars


\* ------------------------------------------------- do() as a running thread
\* The caller is a thread that keeps running: a statement of do() that can
\* be executed is executed in the end.  readline() blocks while the pipe is
\* empty and open at the peer's end, so ReadLine is only due while a line
\* waits.  Nothing is assumed about the peer.
CallerRuns ==
    /\ WF_vars(CheckWrite)
    /\ WF_vars(CheckRead)
    /\ WF_vars(OpenWrite)
    /\ WF_vars(OpenRead)
    /\ WF_vars(Write)
    /\ WF_vars(Flush)
    /\ WF_vars(ReadLine)
    /\ WF_vars(ReadEOF)
    /\ WF_vars(LoopTest)
    /\ WF_vars(CloseWrite)
    /\ WF_vars(CloseRead)
    /\ WF_vars(Inspect)

SpecLive == InitFail /\ [][Next]_vars /\ CallerRuns


\* ------------------------------------------------------------------- save
\* save() acts on the file system itself before it validates and calls do()
ProjectFile == <<"/","t","m","p","/","p",".","a","u","p","3">>

\* a project file of that name is there before save() is called
FileAppears(path) ==
    /\ wname = "none"
    /\ path \notin fs
    /\ fs' = fs \cup {path}
    /\ UNCHANGED <<ext, platform, uid, peer, pc, calls, locals, files, result, hist>>

\* lines 232-233: os.unlink(Path(filename))
W_SaveUnlink ==
    /\ wname = "save"
    /\ wresult = NoResult
    /\ pc = "idle"
    /\ calls = 0
    /\ UnlinkDue(wname, wargs)
    /\ fs' = fs \ {StrOf(wargs[1])}
    /\ removed' = removed \cup {StrOf(wargs[1])}
    /\ UNCHANGED <<wname, wargs, wresult, other, platform, uid, peer, pc, calls,
                   locals, files, result, hist>>

\* save is tried with the project file's name, False, "x" and 3 as
\* add_to_history and compress, and both values of allow_overwrite
SaveArgs ==
    { <<PyStr(ProjectFile), h, c, o>> :
        h \in {PyBool(FALSE), PyStr(<<"x">>)},
        c \in {PyBool(FALSE), PyInt(3)},
        o \in {PyBool(TRUE), PyBool(FALSE)} }

NextSave ==
    \/ FileAppears(ProjectFile)
    \/ \E args \in SaveArgs : W_Call("save", args)
    \/ W_SaveUnlink
    \/ W_Raise
    \/ W_InvokeDo
    \/ CheckWrite
    \/ CheckRead
    \/ OpenWrite
    \/ OpenRead
    \/ Write
    \/ Flush
    \/ ReadLine
    \/ LoopTest
    \/ CloseWrite
    \/ CloseRead
    \/ Inspect
    \/ W_Return
    \/ \E l \in WrapLines : PeerSendW(l)

SpecSave == InitWrap /\ [][NextSave]_vars


\* ------------------------------------- wrappers with choices and defaults
\* the values of the members of the enum classes (enums.py)
ChirpWaveform ==
    {<<"S","i","n","e">>,
     <<"S","q","u","a","r","e">>,
     <<"S","a","w","t","o","o","t","h">>,
     <<"S","q","u","a","r","e",","," ","n","o"," ","a","l","i","a","s">>,
     <<"T","r","i","a","n","g","l","e">>}

ToneWaveform ==
    {<<"S","i","n","e">>,
     <<"S","q","u","a","r","e">>,
     <<"S","a","w","t","o","o","t","h">>,
     <<"S","q","u","a","r","e",","," ","n","o"," ","a","l","i","a","s">>,
     <<"T","r","i","a","n","g","l","e">>}

RhythmTrackBeatSound ==
    {<<"M","e","t","r","o","n","o","m","e">>,
     <<"P","i","n","g"," ","(","s","h","o","r","t",")">>,
     <<"P","i","n","g"," ","(","l","o","n","g",")">>,
     <<"C","o","w","b","e","l","l">>,
     <<"R","e","s","o","n","a","n","t","N","o","i","s","e">>,
     <<"N","o","i","s","e","C","l","i","c","k">>,
     <<"D","r","i","p"," ","(","s","h","o","r","t",")">>,
     <<"D","r","i","p"," ","(","l","o","n","g",")">>}

NoiseType ==
    {<<"W","h","i","t","e">>,
     <<"P","i","n","k">>,
     <<"B","r","o","w","n","i","a","n">>}

\* the default arguments of the def lines
Defaults(name) ==
    CASE name = "chirp" ->
           <<PyFloat(4400), PyFloat(13200), PyFloat(8), PyFloat(1),
             PyEnum(<<"S","i","n","e">>), PyEnum(<<"L","i","n","e","a","r">>)>>
      [] name = "noise" -> <<PyEnum(<<"W","h","i","t","e">>), PyFloat(8)>>
      [] name = "tone" -> <<PyFloat(4400), PyFloat(8), PyEnum(<<"S","i","n","e">>)>>
      [] name = "rhythm_track" ->
           <<PyFloat(1200), PyInt(4), PyFloat(0), PyInt(16), PyFloat(0), PyFloat(0),
             PyEnum(<<"M","e","t","r","o","n","o","m","e">>), PyInt(84), PyInt(0)>>
      [] name = "get_info" -> <<PyStr(<<"C","o","m","m","a","n","d","s">>), PyStr(<<"J","S","O","N">>)>>

\* the parameter annotated with an enum class, and that class
EnumArg(name) ==
    CASE name = "chirp" -> 5
      [] name = "noise" -> 1
      [] name = "tone" -> 3
      [] name = "rhythm_track" -> 7

Members(name) ==
    CASE name = "chirp" -> ChirpWaveform
      [] name = "noise" -> NoiseType
      [] name = "tone" -> ToneWaveform
      [] name = "rhythm_track" -> RhythmTrackBeatSound

EnumWrappers == {"chirp", "noise", "tone", "rhythm_track"}

ChoiceWrappers == EnumWrappers \cup {"get_info"}

\* each wrapper is tried with its defaults and, the other arguments at their
\* defaults, with every member of its enum; noise also with the str "White",
\* get_info also with "tracks" and "Brief"
ChoiceArgs(name) ==
    {Defaults(name)}
    \cup (IF name \in EnumWrappers
            THEN {[Defaults(name) EXCEPT ![EnumArg(name)] = PyEnum(m)] : m \in Members(name)}
            ELSE {})
    \cup (IF name = "noise" THEN {<<PyStr(<<"W","h","i","t","e">>), PyFloat(8)>>} ELSE {})
    \cup (IF name = "get_info" THEN {<<PyStr(<<"t","r","a","c","k","s">>), PyStr(<<"B","r","i","e","f">>)>>} ELSE {})

NextChoice ==
    \/ \E name \in ChoiceWrappers : \E args \in ChoiceArgs(name) : W_Call(name, args)
    \/ W_Raise
    \/ W_InvokeDo
    \/ CheckWrite
    \/ CheckRead
    \/ OpenWrite
    \/ OpenRead
    \/ Write
    \/ Flush
    \/ ReadLine
    \/ LoopTest
    \/ CloseWrite
    \/ CloseRead
    \/ Inspect
    \/ W_Return
    \/ \E l \in WrapLines : PeerSendW(l)

SpecChoice == InitWrap /\ [][NextChoice]_vars


\* -------------------------------------------- wrappers with optional arguments
OptionalWrappers ==
    {"select_time", "select_frequencies", "select_tracks", "set_track_status"}

\* each parameter is tried with None and with a value of its type, the
\* first one also with a value of a wrong type
OptionalArgs(name) ==
    CASE name = "select_time" ->
           { <<a, b, c>> : a \in {PyNone, PyFloat(15), PyStr(<<"x">>)},
                           b \in {PyNone, PyInt(3)},
                           c \in {PyNone, PyStr(<<"x">>)} }
      [] name = "select_frequencies" ->
           { <<a, b>> : a \in {PyNone, PyFloat(15), PyStr(<<"x">>)},
                        b \in {PyNone, PyInt(3)} }
      [] name = "select_tracks" ->
           { <<a, b, c, d, e>> : a \in {PyNone, PyInt(3), PyFloat(15)},
                                 b \in {PyNone, PyInt(3)},
                                 c \in {PyNone, PyInt(0)},
                                 d \in {PyNone, PyStr(<<"x">>)},
                                 e \in {PyNone, PyInt(3)} }
      [] name = "set_track_status" ->
           { <<a, b, c, d, e>> : a \in {PyNone, PyInt(3), PyFloat(15)},
                                 b \in {PyNone, PyInt(0)},
                                 c \in {PyNone, PyStr(<<"x">>)},
                                 d \in {PyNone, PyBool(TRUE)},
                                 e \in {PyNone, PyBool(FALSE)} }

NextOptional ==
    \/ \E name \in OptionalWrappers : \E args \in OptionalArgs(name) : W_Call(name, args)
    \/ W_Raise
    \/ W_InvokeDo
    \/ CheckWrite
    \/ CheckRead
    \/ OpenWrite
    \/ OpenRead
    \/ Write
    \/ Flush
    \/ ReadLine
    \/ LoopTest
    \/ CloseWrite
    \/ CloseRead
    \/ Inspect
    \/ W_Return
    \/ \E l \in WrapLines : PeerSendW(l)

SpecOptional == InitWrap /\ [][NextOptional]_vars


\* ------------------------------------------------------------ properties
\* the environment's endpoints, as the operating system names them
OutboundEndpoint == WritePipeName(platform, uid)

InboundEndpoint == ReadPipeName(platform, uid)

NoChannelIO ==
    /\ nOpenW = 0 /\ nOpenR = 0
    /\ write_pipe = "unset" /\ read_pipe = "unset"
    /\ written = <<>> /\ wbuf = <<>> /\ delivered = <<>>
    /\ nRead = 0 /\ consumed = <<>>

\* C1: when the outbound endpoint does not exist, a call of do() never gets
\* past the first existence check, ends by raising PyAudacityException at
\* line 113 with the "does not exist" message for that endpoint, and has
\* opened nothing, written nothing and read nothing.
C1_OutboundAbsentFailsFast ==
    (calls > 0 /\ OutboundEndpoint \notin fs) =>
        /\ pc \in {"check_write", "done"}
        /\ NoChannelIO
        /\ nExistsR = 0
        /\ pc = "done" =>
             result = [kind |-> "raise",
                       value |-> OutboundEndpoint \o DoesNotExistMsg,
                       line |-> 113]

C1_Witness ==
    /\ pc = "done" /\ calls > 0
    /\ OutboundEndpoint \notin fs
    /\ InboundEndpoint \in fs
    /\ result.kind = "raise" /\ result.line = 113

\* C2: when the outbound endpoint exists and the inbound one does not, a call
\* of do() ends by raising PyAudacityException at line 123 with the "does
\* not exist" message for the inbound endpoint, before any open, write or
\* read of either channel.
C2_InboundAbsentFailsFast ==
    (calls > 0 /\ OutboundEndpoint \in fs /\ InboundEndpoint \notin fs) =>
        /\ pc \in {"check_write", "check_read", "done"}
        /\ NoChannelIO
        /\ pc = "done" =>
             result = [kind |-> "raise",
                       value |-> InboundEndpoint \o DoesNotExistMsg,
                       line |-> 123]

C2_Witness ==
    /\ pc = "done"
    /\ OutboundEndpoint \in fs
    /\ InboundEndpoint \notin fs
    /\ result.kind = "raise" /\ result.line = 123
    /\ nExistsW = 1 /\ nExistsR = 1


\* the failure marker occurs somewhere in text t (searched front to back)
RECURSIVE MarkerOccursIn(_)
MarkerOccursIn(t) ==
    IF Len(t) < Len(FailureMarker) THEN FALSE
    ELSE \/ SubSeq(t, 1, Len(FailureMarker)) = FailureMarker
         \/ MarkerOccursIn(Tail(t))

\* all but the last element of a non-empty sequence
Front(q) == SubSeq(q, 1, Len(q) - 1)

\* the call went through the read loop and has ended
EndedAfterReading == pc = "done" /\ nRead > 0

\* C3: when the text accumulated at read termination contains the failure
\* marker, do() ends by raising PyAudacityException (line 155) whose payload
\* is the whole accumulated text: every line read before the terminating
\* one, in order; it does not return.
C3_MarkerRaisesWithFullResponse ==
    (EndedAfterReading /\ MarkerOccursIn(Flatten(Front(consumed)))) =>
        /\ result.kind = "raise"
        /\ result.line = 155
        /\ result.value = response
        /\ result.value = Flatten(Front(consumed))

C3_Witness ==
    /\ EndedAfterReading
    /\ consumed = <<Line1, FailedLine, Line1, NL>>
    /\ result.kind = "raise"

\* C4: when the response holds no failure marker, do() returns the
\* concatenation, in order, of the lines read before the blank line that
\* ended the read; that blank line is not part of the result and nothing
\* else is added in front or behind.  A peer that echoes the command and
\* then sends a blank line yields the echoed line.
C4_ReturnsLinesBeforeTerminator ==
    (EndedAfterReading /\ ~MarkerOccursIn(Flatten(Front(consumed)))) =>
        /\ result.kind = "return"
        /\ consumed[Len(consumed)] = NL
        /\ result.value = Flatten(Front(consumed))
        /\ consumed = <<command \o NL, NL>> => result.value = command \o NL

C4_Witness ==
    /\ EndedAfterReading
    /\ consumed = <<command \o NL, NL>>
    /\ result.kind = "return"


\* the read loop has been left
LoopLeft ==
    \/ pc \in {"close_write", "close_read", "inspect"}
    \/ EndedAfterReading

\* line k of q is blank and some line before it is not
BlankAfterContent(q, k) ==
    /\ q[k] = NL
    /\ \E i \in 1..(k - 1) : q[i] # NL

\* C5: the read loop ends exactly at the first blank line read after at
\* least one non-blank line: while the loop runs no such line has been read,
\* and once it is left the last line read is the first such line.
C5_StopsAtFirstBlankAfterContent ==
    /\ pc = "read" => \A k \in 1..Len(consumed) : ~BlankAfterContent(consumed, k)
    /\ LoopLeft =>
         /\ BlankAfterContent(consumed, Len(consumed))
         /\ \A k \in 1..(Len(consumed) - 1) : ~BlankAfterContent(consumed, k)

\* C6: for a peer that sends a blank line, "line1\n" and a blank line, do()
\* returns "line1\n".
C6_LeadingBlankDropped ==
    (EndedAfterReading /\ consumed = <<NL, Line1, NL>>) =>
        result = [kind |-> "return", value |-> Line1, line |-> 157]

\* C7: a blank line read while the response buffer is empty does not end
\* the read loop: the step taken from the loop's test goes back to
\* readline().
C7_BlankOnEmptyBufferContinues ==
    [][(pc = "test" /\ line = NL /\ response = <<>> /\ pc' # pc) => pc' = "read"]_vars

C7_Witness ==
    /\ pc = "read"
    /\ consumed = <<NL>>
    /\ line = NL
    /\ response = <<>>

\* the terminator the platform calls for
PlatformTerminator ==
    IF platform = "win32" THEN <<"\r", "\n", NUL>> ELSE <<"\n">>

PassedBothChecks ==
    /\ pc \notin {"idle", "check_write", "check_read"}
    /\ ~(pc = "done" /\ result.line \in {113, 123})

\* C8: a call that passed both existence checks writes to the outbound
\* channel exactly once, the text written is the command followed by the
\* platform's terminator, and it has reached the pipe before the first
\* readline() of the inbound channel.
C8_OneFlushedWriteBeforeRead ==
    /\ Len(written) <= 1
    /\ nRead > 0 => (wbuf = <<>> /\ delivered = command \o PlatformTerminator)
    /\ PassedBothChecks =>
         IF pc \in {"open_write", "open_read", "write"}
           THEN written = <<>> /\ delivered = <<>> /\ nRead = 0
           ELSE /\ written = <<command \o PlatformTerminator>>
                /\ pc = "flush" => nRead = 0
                /\ pc # "flush" =>
                     /\ wbuf = <<>>
                     /\ delivered = command \o PlatformTerminator

C8_Witness ==
    /\ pc = "test" /\ nRead = 1
    /\ platform = "win32"
    /\ command = CmdClose
    /\ delivered = <<"C","l","o","s","e","\r","\n",NUL>>

\* t starts with prefix pre
StartsWith(t, pre) == Len(t) >= Len(pre) /\ SubSeq(t, 1, Len(pre)) = pre

\* what follows the first n characters of t
After(t, n) == SubSeq(t, n + 1, Len(t))

DigitValue(ch) ==
    CASE ch = "0" -> 0 [] ch = "1" -> 1 [] ch = "2" -> 2 [] ch = "3" -> 3
      [] ch = "4" -> 4 [] ch = "5" -> 5 [] ch = "6" -> 6 [] ch = "7" -> 7
      [] ch = "8" -> 8 [] ch = "9" -> 9 [] OTHER -> -1

RECURSIVE Decimal(_)
\* the number a non-empty string of decimal digits denotes, -1 for any other
Decimal(t) ==
    IF t = <<>> THEN -1
    ELSE LET d == DigitValue(t[Len(t)])
         IN IF d < 0 THEN -1
            ELSE IF Len(t) = 1 THEN d
            ELSE LET hi == Decimal(Front(t))
                 IN IF hi < 0 THEN -1 ELSE 10 * hi + d

\* C9: in every call, whatever the command and whatever calls came before,
\* on win32 the terminator is CR LF NUL and the endpoints are the two fixed
\* pipe names; elsewhere the terminator is one line feed and each endpoint
\* path is its fixed prefix followed by the decimal user id.
C9_FramingByPlatformAndUid ==
    calls > 0 =>
        IF platform = "win32"
          THEN /\ eol = <<"\r", "\n", NUL>>
               /\ write_pipe_name = WinWritePipe
               /\ read_pipe_name = WinReadPipe
          ELSE /\ eol = <<"\n">>
               /\ StartsWith(write_pipe_name, PosixWritePrefix)
               /\ Decimal(After(write_pipe_name, Len(PosixWritePrefix))) = uid
               /\ StartsWith(read_pipe_name, PosixReadPrefix)
               /\ Decimal(After(read_pipe_name, Len(PosixReadPrefix))) = uid

C9_Witness ==
    /\ calls > 1
    /\ platform = "linux"
    /\ uid > 9
    /\ command = CmdClose
    /\ nRead > 0

\* C10: when do() has returned a response or raised the peer-failure error,
\* the outbound and the inbound channel it opened are both closed.
C10_ClosedOnExit ==
    (pc = "done" /\ (result.kind = "return" \/ result.line = 155)) =>
        /\ nOpenW = 1 /\ nOpenR = 1
        /\ write_pipe = "closed"
        /\ read_pipe = "closed"

C10_Witness ==
    /\ pc = "done"
    /\ result.kind = "raise" /\ result.line = 155
    /\ read_pipe = "closed"


\* what a call that read the lines q must end with, from q alone
Outcome(q) ==
    IF MarkerOccursIn(Flatten(Front(q)))
      THEN [kind |-> "raise", value |-> Flatten(Front(q)), line |-> 155]
      ELSE [kind |-> "return", value |-> Flatten(Front(q)), line |-> 157]

\* C11: every call of a sequence of calls does its own existence checks,
\* opens, write, read and closes: it starts without handle or buffered text,
\* reaches the write only after its own two checks and two opens, and ends
\* with one write of its own command and a result fixed by the lines it
\* read itself.
C11_CallsIndependent ==
    /\ pc = "check_write" =>
         /\ write_pipe = "unset" /\ read_pipe = "unset"
         /\ wbuf = <<>> /\ response = <<>> /\ line = <<>>
    /\ pc \in {"write", "flush", "read", "test", "close_write", "close_read", "inspect"} =>
         /\ nExistsW = 1 /\ nExistsR = 1 /\ nOpenW = 1 /\ nOpenR = 1
         /\ write_pipe_name = OutboundEndpoint
         /\ read_pipe_name = InboundEndpoint
    /\ EndedAfterReading =>
         /\ nExistsW = 1 /\ nExistsR = 1 /\ nOpenW = 1 /\ nOpenR = 1
         /\ written = <<command \o PlatformTerminator>>
         /\ delivered = command \o PlatformTerminator
         /\ write_pipe = "closed" /\ read_pipe = "closed"
         /\ result = Outcome(consumed)

\* a second call that returns after the first call read a response of its own
C11_Witness ==
    /\ calls = 2
    /\ EndedAfterReading
    /\ sent = 4 /\ fromPeer = <<>>
    /\ consumed = <<command \o NL, NL>>
    /\ result.kind = "return"

\* a blank line has been read when at least one line had been read before
TerminatorRead == \E k \in 2..Len(consumed) : consumed[k] = NL

\* the call has flushed its command and has not failed an existence check
PassedFlush ==
    /\ PassedBothChecks
    /\ pc \notin {"open_write", "open_read", "write", "flush"}

C13_NoRetry ==
    /\ nExistsW <= 1 /\ nExistsR <= 1
    /\ nOpenW <= 1 /\ nOpenR <= 1
    /\ Len(written) <= 1
    /\ (pc = "done" /\ result.line = 113) =>
         nExistsW = 1 /\ nExistsR = 0 /\ NoChannelIO
    /\ (pc = "done" /\ result.line = 123) =>
         nExistsW = 1 /\ nExistsR = 1 /\ NoChannelIO

C13_Witness ==
    /\ calls = 2
    /\ pc = "done"
    /\ result.line = 113
    /\ nExistsW = 1 /\ nExistsR = 0

\* the order of the steps of one call
StepOrder ==
    { <<"idle", "check_write">>, <<"done", "check_write">>,
      <<"check_write", "check_read">>, <<"check_write", "done">>,
      <<"check_read", "open_write">>, <<"check_read", "done">>,
      <<"open_write", "open_read">>, <<"open_read", "write">>,
      <<"write", "flush">>, <<"flush", "read">>,
      <<"read", "test">>, <<"test", "read">>, <<"test", "close_write">>,
      <<"close_write", "close_read">>, <<"close_read", "inspect">>,
      <<"inspect", "done">> }

\* C17: a call goes through its steps in the fixed order: outbound check,
\* inbound check, open outbound, open inbound, write and flush, read until
\* the terminator, close, result.  Both checks come before any open, both
\* opens before the write, the flushed write before the first read, the
\* end of the read loop before the first close.
C17_FixedStepOrder ==
    [][ /\ pc' # pc => <<pc, pc'>> \in StepOrder
        /\ nExistsR' > nExistsR => (nExistsW = 1 /\ nOpenW = 0 /\ nOpenR = 0)
        /\ nOpenW' > nOpenW => (nExistsW = 1 /\ nExistsR = 1 /\ nOpenR = 0)
        /\ nOpenR' > nOpenR => (nOpenW = 1 /\ written = <<>>)
        /\ Len(written') > Len(written) => (nOpenW = 1 /\ nOpenR = 1 /\ nRead = 0)
        /\ nRead' > nRead => (Len(written) = 1 /\ wbuf = <<>> /\ write_pipe = "open")
        /\ (write_pipe = "open" /\ write_pipe' = "closed") =>
             (TerminatorRead /\ read_pipe = "open")
        /\ (result = NoResult /\ result'.line \in {155, 157}) =>
             (write_pipe = "closed" /\ read_pipe = "closed")
      ]_vars

C17_Witness ==
    /\ pc = "done"
    /\ result.kind = "return"
    /\ nExistsW = 1 /\ nExistsR = 1 /\ nOpenW = 1 /\ nOpenR = 1
    /\ Len(written) = 1
    /\ nRead = 3

\* C18: when the read ends do() closes the outbound channel first and the
\* inbound channel second and looks for the failure marker only when both
\* are closed; nothing is read or written once the outbound channel is
\* closed.
C18_CloseOrder ==
    [][ /\ (read_pipe = "open" /\ read_pipe' = "closed") => write_pipe = "closed"
        /\ (write_pipe = "open" /\ write_pipe' = "closed") => read_pipe = "open"
        /\ (result = NoResult /\ result'.line \in {155, 157}) =>
             (write_pipe = "closed" /\ read_pipe = "closed")
        /\ (write_pipe = "closed" /\ calls' = calls) =>
             /\ pc' \in {"close_read", "inspect", "done"}
             /\ consumed' = consumed /\ nRead' = nRead
             /\ written' = written /\ delivered' = delivered /\ wbuf' = wbuf
             /\ response' = response /\ line' = line
      ]_vars

C18_Witness ==
    /\ pc = "inspect"
    /\ write_pipe = "closed" /\ read_pipe = "closed"
    /\ result = NoResult
    /\ MarkerOccursIn(response)


\* C19: when opening the inbound channel, the write, the flush or a
\* readline raises, the error leaves do() as it is and every channel the
\* call had opened is still open: do() closes none of them.
C19_OpenChannelsLeftOpen ==
    (pc = "done" /\ result.kind = "oserror") =>
        /\ result.line \in {132, 133, 135, 136, 142}
        /\ write_pipe = (IF result.line = 132 THEN "unset" ELSE "open")
        /\ read_pipe = (IF result.line \in {132, 133} THEN "unset" ELSE "open")
        /\ nOpenW = (IF result.line = 132 THEN 0 ELSE 1)
        /\ nOpenR = (IF result.line \in {132, 133} THEN 0 ELSE 1)

C19_Witness ==
    /\ pc = "done"
    /\ result = [kind |-> "oserror", value |-> <<>>, line |-> 142]
    /\ nRead = 2
    /\ write_pipe = "open" /\ read_pipe = "open"


\* a caller is inside do()
Busy(p) == p \notin {"idle", "done"}

\* the step the second caller is at can be taken now
SecondCallerCanStep ==
    /\ pc2 = "idle" => \A c \in Commands : ENABLED DoEnter2(c)
    /\ pc2 = "check_write" => ENABLED CheckWrite2
    /\ pc2 = "check_read" => ENABLED CheckRead2
    /\ pc2 = "open_write" => ENABLED OpenWrite2
    /\ pc2 = "open_read" => ENABLED OpenRead2
    /\ pc2 = "write" => ENABLED Write2
    /\ pc2 = "flush" => ENABLED Flush2
    /\ (pc2 = "read" /\ fromPeer # <<>>) => ENABLED ReadLine2
    /\ pc2 = "test" => ENABLED LoopTest2
    /\ pc2 = "close_write" => ENABLED CloseWrite2
    /\ pc2 = "close_read" => ENABLED CloseRead2
    /\ pc2 = "inspect" => ENABLED Inspect2

\* the step the first caller is at can be taken now
FirstCallerCanStep ==
    /\ (pc \in {"idle", "done"} /\ calls < MaxCalls) =>
         \A c \in Commands : ENABLED DoEnter(c)
    /\ pc = "check_write" => ENABLED CheckWrite
    /\ pc = "check_read" => ENABLED CheckRead
    /\ pc = "open_write" => ENABLED OpenWrite
    /\ pc = "open_read" => ENABLED OpenRead
    /\ pc = "write" => ENABLED Write
    /\ pc = "flush" => ENABLED Flush
    /\ (pc = "read" /\ fromPeer # <<>>) => ENABLED ReadLine
    /\ pc = "test" => ENABLED LoopTest
    /\ pc = "close_write" => ENABLED CloseWrite
    /\ pc = "close_read" => ENABLED CloseRead
    /\ pc = "inspect" => ENABLED Inspect

\* C20: do() provides no mutual exclusion: while one caller is inside
\* do(), every step of the other caller (entering, checking, opening,
\* writing, reading a line that is in the pipe, closing) can be taken; no
\* step waits for the other caller.  The witness is the race this allows: a
\* caller returns the line the peer produced for the other caller's command.
C20_NoMutualExclusion ==
    /\ Busy(pc) => SecondCallerCanStep
    /\ Busy(pc2) => FirstCallerCanStep

\* the second caller sent Close and returned the echo of the first caller's New
C20_Witness ==
    /\ calls = 1
    /\ command = CmdNew /\ command2 = CmdClose
    /\ delivered2 = CmdClose \o Eol(platform)
    /\ pc2 = "done"
    /\ result2 = [kind |-> "return", value |-> CmdNew \o NL, line |-> 157]
    /\ Busy(pc)


\* ------------------------------------------------ properties of the wrappers
\* the macro a wrapper is named for
MacroName(name) ==
    CASE name = "new" -> <<"N","e","w">>
      [] name = "select_time" -> <<"S","e","l","e","c","t","T","i","m","e">>
      [] name = "select_frequencies" -> <<"S","e","l","e","c","t","F","r","e","q","u","e","n","c","i","e","s">>
      [] name = "select_tracks" -> <<"S","e","l","e","c","t","T","r","a","c","k","s">>
      [] name = "set_track_status" -> <<"S","e","t","T","r","a","c","k","S","t","a","t","u","s">>
      [] name = "save" -> <<"S","a","v","e","P","r","o","j","e","c","t","2">>
      [] name = "noise" -> <<"N","o","i","s","e">>
      [] name = "tone" -> <<"T","o","n","e">>
      [] name = "rhythm_track" -> <<"R","h","y","t","h","m","T","r","a","c","k">>
      [] name = "get_info" -> <<"G","e","t","I","n","f","o">>
      [] name = "open" -> <<"O","p","e","n","P","r","o","j","e","c","t","2">>
      [] name = "chirp" -> <<"C","h","i","r","p">>
      [] name = "amplify" -> <<"A","m","p","l","i","f","y">>
      [] name = "bass_and_treble" -> <<"B","a","s","s","A","n","d","T","r","e","b","l","e">>
      [] name = "notch_filter" -> <<"N","o","t","c","h","F","i","l","t","e","r">>
      [] name = "spectral_edit_parametric_eq" -> <<"S","p","e","c","t","r","a","l","E","d","i","t","P","a","r","a","m","e","t","r","i","c","E","q">>
      [] name = "spectral_edit_shelves" -> <<"S","p","e","c","t","r","a","l","E","d","i","t","S","h","e","l","v","e","s">>
      [] name = "tremolo" -> <<"T","r","e","m","o","l","o">>

\* the keys of the macro's parameters, in the order of the wrapper's arguments
KeyNames(name) ==
    CASE name = "new" -> <<>>
      [] name = "select_time" -> <<<<"S","t","a","r","t">>, <<"E","n","d">>, <<"R","e","l","a","t","i","v","e","T","o">>>>
      [] name = "select_frequencies" -> <<<<"H","i","g","h">>, <<"L","o","w">>>>
      [] name = "select_tracks" -> <<<<"F","i","r","s","t">>, <<"L","a","s","t">>, <<"T","r","a","c","k">>, <<"M","o","d","e">>, <<"T","r","a","c","k","C","o","u","n","t">>>>
      [] name = "set_track_status" -> <<<<"T","r","a","c","k">>, <<"C","h","a","n","n","e","l">>, <<"N","a","m","e">>, <<"S","e","l","e","c","t","e","d">>, <<"F","o","c","u","s","e","d">>>>
      [] name = "save" -> <<<<"F","i","l","e","n","a","m","e">>, <<"A","d","d","T","o","H","i","s","t","o","r","y">>, <<"C","o","m","p","r","e","s","s">>>>
      [] name = "noise" -> <<<<"T","y","p","e">>, <<"A","m","p","l","i","t","u","d","e">>>>
      [] name = "tone" -> <<<<"F","r","e","q","u","e","n","c","y">>, <<"A","m","p","l","i","t","u","d","e">>, <<"W","a","v","e","f","o","r","m">>>>
      [] name = "rhythm_track" -> <<<<"t","e","m","p","o">>, <<"t","i","m","e","s","i","g">>, <<"s","w","i","n","g">>, <<"b","a","r","s">>, <<"c","l","i","c","k","-","t","r","a","c","k","-","d","u","r">>, <<"o","f","f","s","e","t">>, <<"c","l","i","c","k","-","t","y","p","e">>, <<"h","i","g","h">>, <<"l","o","w">>>>
      [] name = "get_info" -> <<<<"T","y","p","e">>, <<"F","o","r","m","a","t">>>>
      [] name = "open" -> <<<<"F","i","l","e","n","a","m","e">>, <<"A","d","d","T","o","H","i","s","t","o","r","y">>>>
      [] name = "chirp" -> <<<<"S","t","a","r","t","F","r","e","q">>, <<"E","n","d","F","r","e","q">>, <<"S","t","a","r","t","A","m","p">>, <<"E","n","d","A","m","p">>, <<"W","a","v","e","f","o","r","m">>, <<"I","n","t","e","r","p","o","l","a","t","i","o","n">>>>
      [] name = "amplify" -> <<<<"R","a","t","i","o">>, <<"A","l","l","o","w","C","l","i","p","p","i","n","g">>>>
      [] name = "bass_and_treble" -> <<<<"B","a","s","s">>, <<"T","r","e","b","l","e">>, <<"G","a","i","n">>, <<"L","i","n","k","S","l","i","d","e","r","s">>>>
      [] name = "notch_filter" -> <<<<"f","r","e","q","u","e","n","c","y">>, <<"q">>>>
      [] name = "spectral_edit_parametric_eq" -> <<<<"c","o","n","t","r","o","l","-","g","a","i","n">>>>
      [] name = "spectral_edit_shelves" -> <<<<"c","o","n","t","r","o","l","-","g","a","i","n">>>>
      [] name = "tremolo" -> <<<<"w","a","v","e">>, <<"p","h","a","s","e">>, <<"w","e","t">>, <<"l","f","o">>>>

\* Key="Value" pairs for the keys from i on, each led by a space
RECURSIVE KeyValuePairs(_, _, _)
KeyValuePairs(keys, values, i) ==
    IF i > Len(keys) THEN <<>>
    ELSE <<" ">> \o keys[i] \o <<"=", "\"">> \o StrOf(values[i]) \o <<"\"">>
         \o KeyValuePairs(keys, values, i + 1)

\* the command a call name(args) stands for: the macro's name and, behind a
\* colon, one pair per argument carrying the argument's value
KeyValueCommand(name, args) ==
    IF KeyNames(name) = <<>> THEN MacroName(name)
    ELSE MacroName(name) \o <<":">>
         \o KeyValuePairs(KeyNames(name), Formatted(name, args), 1)

\* the wrapper was called and its call has ended
WrapperEnded == wname # "none" /\ wresult # NoResult

\* the wrapper's call has got as far as calling do()
WrapperCalledDo == wname # "none" /\ calls > 0

\* C14: a wrapper that called do() and got a text back returns that text,
\* character for character
C14_ReturnsDoText ==
    (WrapperEnded /\ WrapperCalledDo /\ result.kind = "return")
        => (wresult.kind = "return" /\ wresult.value = result.value)

\* C15: the command a wrapper hands to do() is its macro's name followed by
\* Key="Value" pairs that carry the arguments of the call
C15_CommandCarriesArguments ==
    WrapperCalledDo => command = KeyValueCommand(wname, wargs)

\* C16: a wrapper whose arguments fail one of its checks raises at that
\* check and never enters do(): no existence check, no open, no read or
\* write on either pipe has happened; and do() is entered only with
\* arguments that pass every check
C16_ValidationBeforeDo ==
    /\ (wname # "none" /\ Validate(wname, wargs) # 0)
          => /\ calls = 0
             /\ pc = "idle"
             /\ nExistsW = 0 /\ nExistsR = 0 /\ nOpenW = 0 /\ nOpenR = 0
             /\ nRead = 0 /\ written = <<>> /\ delivered = <<>>
             /\ WrapperEnded =>
                  wresult = [kind |-> "raise", value |-> <<>>,
                             line |-> Validate(wname, wargs)]
    /\ WrapperCalledDo => Validate(wname, wargs) = 0

\* chirp was called with a waveform it does not know and raised at that
\* check while both endpoints existed and the peer had a line waiting
C16_Witness ==
    /\ wname = "chirp"
    /\ wresult.kind = "raise"
    /\ wresult.line = 1458
    /\ fromPeer # <<>>
    /\ fs = {WritePipeName(platform, uid), ReadPipeName(platform, uid)}


\* ------------------------------------------ properties of the endpoint paths
\* the step is one of the caller inside do()
CallerStep == pc' # pc

\* C21: every step that changes the set of existing endpoint paths is a
\* step of the peer, none is a step of do()
C21_OnlyPeerChangesEndpoints ==
    [][fs' # fs => ~CallerStep]_vars


\* --------------------------------------------------- properties of the end
\* the lines this call has read and those that wait in the inbound pipe
LinesInReach == consumed \o fromPeer

\* the command is written and flushed, and a non-empty line followed by a
\* blank line has been sent to this call
AnswerSent ==
    /\ pc \in {"read", "test"}
    /\ \E i, j \in 1..Len(LinesInReach) :
          /\ i < j
          /\ LinesInReach[i] # NL
          /\ LinesInReach[j] = NL

Succeeded == result.kind = "return" /\ result.line = 157

PeerFailure == result.kind = "raise" /\ result.line = 155

\* do() has ended by returning or by raising the peer's failure, with both
\* file objects closed
EndedClosed ==
    /\ pc = "done"
    /\ Succeeded \/ PeerFailure
    /\ ~(Succeeded /\ PeerFailure)
    /\ write_pipe = "closed"
    /\ read_pipe = "closed"

\* C22: once the command is flushed and the peer has sent a non-empty line
\* followed by a blank line, do() leaves the read loop and ends as
\* Succeeded or as Failed, never both, with both channels closed
C22_AnswerEndsCall == AnswerSent ~> EndedClosed

\* the call ended closed after reading a line of content and a blank line
C22_Witness ==
    /\ EndedClosed
    /\ Len(consumed) = 2
    /\ consumed[1] # NL
    /\ consumed[2] = NL
    /\ fromPeer # <<>>


\* the caller is in the read loop, the peer has closed its end and no line
\* waits, and the last line read is not a terminator that ends the loop
AtEOF ==
    /\ pc \in {"read", "test"}
    /\ read_pipe = "open"
    /\ peerClosed
    /\ fromPeer = <<>>
    /\ ~(pc = "test" /\ ShouldBreak(line, response))

\* C23: at end of file on the inbound pipe every step of do() stays in the
\* read loop: readline() gives "" again, nothing more is buffered, and the
\* call neither returns nor raises, whatever the buffer holds
C23_EOFKeepsLooping ==
    [][AtEOF => /\ AtEOF'
                /\ result' = NoResult
                /\ consumed' = consumed
                /\ (pc = "read" => line' = <<>> /\ response' = response \o line)]_vars

\* readline() has returned "" at end of file, with content and with
\* nothing buffered
C23_Witness ==
    /\ AtEOF
    /\ pc = "test"
    /\ line = <<>>
    /\ response = Line1


\* C24: whatever do() returns is a text of at least one character in which
\* the failure marker does not occur
C24_ReturnedTextNonEmptyNoMarker ==
    result.kind = "return" =>
        /\ result.value # <<>>
        /\ Len(result.value) > 0
        /\ ~MarkerOccursIn(result.value)

\* the shortest text do() returns: one blank line, read in front of the
\* terminator; and the marker was not far: the next line waiting holds it
C24_Witness ==
    /\ pc = "done"
    /\ result.kind = "return"
    /\ result.value = NL
    /\ fromPeer # <<>>
    /\ Head(fromPeer) = FailedLine


\* --------------------------------------------------------- properties of save
\* C25: when save() with a true allow_overwrite has raised for an
\* add_to_history or compress that is not a bool, the file of that name is
\* gone and nothing was sent: do() was not entered
C25_SaveUnlinksBeforeChecks ==
    (wname = "save" /\ wresult.kind = "raise" /\ wresult.line \in {235, 239}) =>
        /\ calls = 0
        /\ NoChannelIO
        /\ Truthy(wargs[4]) => StrOf(wargs[1]) \notin fs
        /\ ~Truthy(wargs[4]) => removed = {}

\* save(ProjectFile, False, 3) raised for compress after it removed the
\* existing project file, with both endpoints there
C25_Witness ==
    /\ wname = "save"
    /\ wresult.kind = "raise"
    /\ wresult.line = 239
    /\ removed = {ProjectFile}
    /\ ProjectFile \notin fs
    /\ Endpoints \subseteq fs
    /\ calls = 0


\* ------------------------------------- properties of choices and defaults
\* the macro's name and one Key="Value" pair per argument, each value the
\* str() of the argument as it was given
PlainCommand(name, args) ==
    MacroName(name) \o <<":">> \o KeyValuePairs(KeyNames(name), args, 1)

\* the call got as far as raising, returning or entering do()
WrapperDecided == WrapperEnded \/ WrapperCalledDo

CalledWithDefaults ==
    /\ wname \in {"noise", "rhythm_track", "get_info"}
    /\ wargs = Defaults(wname)

\* C26: noise(), rhythm_track() and get_info() with their default arguments
\* pass their checks and hand do() a command that carries the defaults
C26_DefaultsReachDo ==
    (CalledWithDefaults /\ WrapperDecided) =>
        /\ WrapperCalledDo
        /\ command = PlainCommand(wname, wargs)

CalledWithMember ==
    /\ wname \in EnumWrappers
    /\ wargs[EnumArg(wname)] \in {PyEnum(m) : m \in Members(wname)}

\* C27: chirp, tone, rhythm_track and noise called with any member of their
\* enum pass their checks and hand do() a command with the member's value
C27_MembersAccepted ==
    (wname # "none" /\ CalledWithMember /\ WrapperDecided) =>
        /\ WrapperCalledDo
        /\ command = PlainCommand(wname, wargs)


\* ------------------------------------------ properties of optional arguments
\* the elements of seq at the positions where args is not None, in order
RECURSIVE WhereGiven(_, _, _)
WhereGiven(seq, args, i) ==
    IF i > Len(args) THEN <<>>
    ELSE (IF args[i] # PyNone THEN <<seq[i]>> ELSE <<>>) \o WhereGiven(seq, args, i + 1)

\* the macro's name, ": ", and one Key="Value" pair for each argument that
\* is not None, in the order of the parameters, a single space between pairs
GivenPairsCommand(name, args) ==
    LET keys   == WhereGiven(KeyNames(name), args, 1)
        values == WhereGiven(Formatted(name, args), args, 1)
    IN IF keys = <<>>
         THEN MacroName(name) \o <<":", " ">>
         ELSE MacroName(name) \o <<":">> \o KeyValuePairs(keys, values, 1)

\* C28: select_time, select_frequencies, select_tracks and set_track_status
\* send the macro's name, ": ", and a pair for exactly the arguments that
\* are not None, in declared order; with all of them None nothing follows
C28_PairsForGivenArguments ==
    (wname \in OptionalWrappers /\ WrapperCalledDo) =>
        /\ command = GivenPairsCommand(wname, wargs)
        /\ (\A i \in 1..Len(wargs) : wargs[i] = PyNone) =>
              command = MacroName(wname) \o <<":", " ">>

\* select_tracks(first=3, mode="x") has sent SelectTracks: First="3" Mode="x"
C28_Witness ==
    /\ wname = "select_tracks"
    /\ wargs = <<PyInt(3), PyNone, PyNone, PyStr(<<"x">>), PyNone>>
    /\ WrapperCalledDo
    /\ command = <<"S","e","l","e","c","t","T","r","a","c","k","s",":"," ","F","i","r","s","t","=","\"","3","\""," ","M","o","d","e","=","\"","x","\"">>
    /\ delivered = command \o NL

=============================================================================
